---- MODULE Spec2Model ----
(***************************************************************************)
(* Verification model of financepy's EquityVolSurface                      *)
(* (src/financepy/market/volatility/equity_vol_surface.py): the fitted     *)
(* per-expiry state, its construction and the two cross-expiry queries     *)
(* volatilityFromStrikeDate and volatilityFromDeltaDate; of                *)
(* EquityVarianceSwap.fairStrike (products/equity/equity_variance_swap.py) *)
(* and of FXOneTouchOption (products/fx/fx_one_touch_options.py).          *)
(*                                                                         *)
(* Numbers.  The code works in floating point; the model works in exact    *)
(* arithmetic on integers and keeps every quotient as a numerator and a    *)
(* denominator, so that no rounding is invented:                           *)
(*   - a date is an integer number of ticks, and a time to expiry          *)
(*     (expiry_date - valuation_date) / gDaysInYear is carried in the same *)
(*     ticks (the division by gDaysInYear is a uniform change of unit);    *)
(*     one tick is half of the 1e-6 year tolerance of the code, which      *)
(*     dates with hours, minutes and seconds can resolve;                  *)
(*   - a discount factor exp(-z*t) is carried by its logarithm -z*t, and a *)
(*     forward s*exp(x) by the pair (s, x);                                *)
(*   - np.sqrt(a/b) is carried as the pair (a, b) under kind "sqrt".       *)
(* Sequences are 1-based: index i of the model is index i-1 of the code.   *)
(***************************************************************************)
EXTENDS Integers, Sequences, FiniteSets, TLC

VARIABLES
    valuation_date,            \* self._valuation_date
    stock_price,               \* self._stock_price
    discount_curve,            \* self._discount_curve
    dividend_curve,            \* self._dividend_curve
    strikes,                   \* self._strikes
    numStrikes,                \* self._numStrikes
    expiry_dates,              \* self._expiry_dates
    volatility_grid,           \* self._volatility_grid
    volatility_function_type,  \* self._volatility_function_type
    numExpiryDates,            \* self._numExpiryDates
    parameters,                \* self._parameters
    texp,                      \* self._texp
    F0T,                       \* self._F0T
    r,                         \* self._r
    q,                         \* self._q
    call,                      \* the last query: its arguments, its locals, its outcome
    ctor,                      \* the frame of __init__: its position, arguments, locals
    swap,                      \* an EquityVarianceSwap: its attributes
    touch                      \* an FXOneTouchOption: its attributes

surface == <<valuation_date, stock_price, discount_curve, dividend_curve,
             strikes, numStrikes, expiry_dates, volatility_grid,
             volatility_function_type, numExpiryDates,
             parameters, texp, F0T, r, q>>

vars == <<valuation_date, stock_price, discount_curve, dividend_curve,
          strikes, numStrikes, expiry_dates, volatility_grid,
          volatility_function_type, numExpiryDates,
          parameters, texp, F0T, r, q, call, ctor, swap, touch>>

\* the objects of the product classes
products == <<swap, touch>>

\* no object of the class has been constructed
NoProduct == [class |-> "none"]

(***************************************************************************)
(* Bounds of the model.                                                    *)
(***************************************************************************)
\* the longest expiry list a surface is built from
MaxExpiries == 3

\* expiry dates of the tenors, in ticks from the valuation date: one before
\* the valuation date, one on it, two within the tolerance of each other
\* (1 and 3) and one far out
TenorDates == {-3, 0, 1, 3, 7}

\* expiry dates that are queried
QueryDates == {-3, -1, 0, 1, 2, 3, 7}

\* strikes that are queried, and that a strike solve may return
QueryStrikes == {9, 11}

\* call deltas that are queried, in percent
QueryDeltas == {25}

\* the surfaces that are built: a smile family, the market scenario it is
\* fitted to and the discount curve (the dividend curve is flat at zero)
SurfaceCases ==
    {[type |-> "CLARK",          scenario |-> "flat", discount |-> "zero"],
     [type |-> "SABR",           scenario |-> "drop", discount |-> "zero"],
     [type |-> "SABR_BETA_ONE",  scenario |-> "rise", discount |-> "steep"],
     [type |-> "SABR_BETA_HALF", scenario |-> "drop", discount |-> "steep"],
     [type |-> "BBG",            scenario |-> "rise", discount |-> "zero"],
     [type |-> "CLARK5",         scenario |-> "flat", discount |-> "steep"],
     [type |-> "SVI",            scenario |-> "drop", discount |-> "zero"],
     [type |-> "SSVI",           scenario |-> "rise", discount |-> "steep"]}

(***************************************************************************)
(* Small arithmetic.                                                       *)
(***************************************************************************)
Abs(x) == IF x < 0 THEN -x ELSE x

\* a float that may be nan: rates are -log(df)/t, which is nan at t = 0
NaN == [nan |-> TRUE, val |-> 0]

Num(x) == [nan |-> FALSE, val |-> x]

\* a quotient a/b of the code, kept exact
Quot(a, b) == [num |-> a, den |-> b]

\* a/b < 0.0 as floating point decides it (nan and a zero numerator are not)
QuotNegative(x) ==
    \/ x.num < 0 /\ x.den > 0
    \/ x.num > 0 /\ x.den < 0

\* a/b = c, for b # 0
QuotEquals(x, c) == x.den # 0 /\ x.num = c * x.den

(***************************************************************************)
(* Collaborators whose source is not part of the files modelled here.      *)
(***************************************************************************)
\* utils/global_vars.py: FinError carries a message
FinError(msg) == [kind |-> "error", error |-> msg]

\* models/volatility_fns.py, FinVolFunctionTypes
FinVolFunctionTypes ==
    {"CLARK", "SABR", "SABR_BETA_ONE", "SABR_BETA_HALF", "BBG", "CLARK5",
     "SVI", "SSVI"}

\* utils/global_types.py, FinOptionTypes.EUROPEAN_CALL
EUROPEAN_CALL == "EUROPEAN_CALL"

\* market/discount/curve.py: a curve is known by its zero rate z(t), and
\* _df(t) = exp(-z(t)*t) is carried by its logarithm
ZeroRate(curve, t) ==
    CASE curve = "zero"  -> 0
      [] curve = "steep" -> IF t > 2 THEN 2 ELSE 1

LogDF(curve, t) == -(ZeroRate(curve, t) * t)

\* the forward s*exp(x); nan when the exponent is
Forward(s, x) == [nan |-> FALSE, s |-> s, x |-> x]

NaNForward(s) == [nan |-> TRUE, s |-> s, x |-> 0]

\* models/black_scholes_analytic.py, bs_delta: left uninterpreted
bs_delta(s, t, k, rate, div, v, option_type_value) ==
    <<"bs_delta", s, t, k, rate, div, v, option_type_value>>

\* utils/math.py, norminvcdf: left uninterpreted
norminvcdf(x) == <<"norminvcdf", x>>

\* the error of a delta inversion that did not converge
StrikeSolveFailed == FinError("StrikeSolveFailed")

\* utils/solver_1d.py, newton_secant(func, x0, args, tol, maxiter): the
\* iteration meets the tolerance within maxiter steps on some strike (which
\* one is not determined here), or it does not and the failure is raised
newton_secant(x0, args, tol, maxiter) ==
    {[raised |-> FALSE, x |-> K, tol |-> tol, maxiter |-> maxiter] :
        K \in QueryStrikes}
    \cup {[raised |-> TRUE, error |-> StrikeSolveFailed,
            tol |-> tol, maxiter |-> maxiter]}

\* The smile families' closed forms (models/volatility_fns.py, models/sabr.py)
\* are stood in for by integer formulas that read every argument: the
\* parameter vector, the forward, the strike and the time.
Moneyness(f, k) == k - f.s - f.x

vol_function_clark(params, f, k, t) ==
    params[1] + params[2] * Moneyness(f, k) + params[3] * t

vol_function_sabr_BETA_ONE(params, f, k, t) ==
    params[1] + params[2] * Moneyness(f, k) + params[3] * t

vol_function_sabr_BETA_HALF(params, f, k, t) ==
    params[1] + params[2] * Moneyness(f, k) + params[3] * t

vol_Function_bloomberg(params, f, k, t) ==
    params[1] + params[2] * Moneyness(f, k) + params[3] * t

vol_function_sabr(params, f, k, t) ==
    params[1] + params[2] * Moneyness(f, k) + params[3] * t + params[4]

vol_function_svi(params, f, k, t) ==
    params[1] + params[2] * Moneyness(f, k) + params[3] * t + params[4] + params[5]

vol_function_ssvi(params, f, k, t) ==
    params[1] + params[2] * Moneyness(f, k) + params[3] * t + params[4] + params[5]

(***************************************************************************)
(* volFunction: the dispatch on the family discriminant.                   *)
(***************************************************************************)
\* Variant of volFunctionBranch: a discriminant outside the defined families
\* is evaluated as CLARK.
volFunctionBranch_DefaultsToClark(vol_function_type_value) ==
    CASE vol_function_type_value = "CLARK" -> "vol_function_clark"
      [] vol_function_type_value = "SABR_BETA_ONE" -> "vol_function_sabr_BETA_ONE"
      [] vol_function_type_value = "SABR_BETA_HALF" -> "vol_function_sabr_BETA_HALF"
      [] vol_function_type_value = "BBG" -> "vol_Function_bloomberg"
      [] vol_function_type_value = "SABR" -> "vol_function_sabr"
      [] vol_function_type_value = "CLARK5" -> "vol_function_clark"
      [] vol_function_type_value = "SVI" -> "vol_function_svi"
      [] vol_function_type_value = "SSVI" -> "vol_function_ssvi"
      [] OTHER -> "vol_function_clark"

\* the branch of the if-chain a discriminant takes: the function it calls, or
\* the raise of the else
volFunctionBranch(vol_function_type_value) ==
    CASE vol_function_type_value = "CLARK" -> "vol_function_clark"
      [] vol_function_type_value = "SABR_BETA_ONE" -> "vol_function_sabr_BETA_ONE"
      [] vol_function_type_value = "SABR_BETA_HALF" -> "vol_function_sabr_BETA_HALF"
      [] vol_function_type_value = "BBG" -> "vol_Function_bloomberg"
      [] vol_function_type_value = "SABR" -> "vol_function_sabr"
      [] vol_function_type_value = "CLARK5" -> "vol_function_clark"
      [] vol_function_type_value = "SVI" -> "vol_function_svi"
      [] vol_function_type_value = "SSVI" -> "vol_function_ssvi"
      [] OTHER -> "raise"

volFunction(vol_function_type_value, params, f, k, t) ==
    LET branch == volFunctionBranch(vol_function_type_value)
    IN  CASE branch = "vol_function_clark" -> vol_function_clark(params, f, k, t)
          [] branch = "vol_function_sabr_BETA_ONE" -> vol_function_sabr_BETA_ONE(params, f, k, t)
          [] branch = "vol_function_sabr_BETA_HALF" -> vol_function_sabr_BETA_HALF(params, f, k, t)
          [] branch = "vol_Function_bloomberg" -> vol_Function_bloomberg(params, f, k, t)
          [] branch = "vol_function_sabr" -> vol_function_sabr(params, f, k, t)
          [] branch = "vol_function_svi" -> vol_function_svi(params, f, k, t)
          [] branch = "vol_function_ssvi" -> vol_function_ssvi(params, f, k, t)
          [] branch = "raise" -> FinError("Unknown Model Type")

(***************************************************************************)
(* _buildVolSurface: the parameter count of the family and the derived     *)
(* per-expiry quantities.                                                  *)
(***************************************************************************)
\* Variant of num_parameters: every family is given three parameters.
num_parameters_AllThree(type) ==
    CASE type = "CLARK" -> 3
      [] type = "SABR_BETA_ONE" -> 3
      [] type = "SABR_BETA_HALF" -> 3
      [] type = "BBG" -> 3
      [] type = "SABR" -> 3
      [] type = "CLARK5" -> 3
      [] type = "SVI" -> 3
      [] type = "SSVI" -> 3

num_parameters(type) ==
    CASE type = "CLARK" -> 3
      [] type = "SABR_BETA_ONE" -> 3
      [] type = "SABR_BETA_HALF" -> 3
      [] type = "BBG" -> 3
      [] type = "SABR" -> 4
      [] type = "CLARK5" -> 5
      [] type = "SVI" -> 5
      [] type = "SSVI" -> 5

\* the else of the if-chain on the family: none of its tests holds
UnknownModelType(type) ==
    /\ type # "CLARK" /\ type # "SABR_BETA_ONE" /\ type # "SABR_BETA_HALF"
    /\ type # "BBG" /\ type # "SABR" /\ type # "CLARK5"
    /\ type # "SVI" /\ type # "SSVI"

\* texp = (expiry_date - spotDate) / gDaysInYear
TimeToExpiry(expiry_date, spotDate) == expiry_date - spotDate

\* f = s * divDF/disDF, with disDF = exp(LogDF(dis)) and divDF = exp(LogDF(div))
BuildForward(s, dis, div, t) == Forward(s, LogDF(div, t) - LogDF(dis, t))

\* -np.log(df) / texp: nan at texp = 0 (0.0/0.0)
BuildRate(curve, t) ==
    IF t = 0 THEN NaN ELSE Num((-LogDF(curve, t)) \div t)

\* The parameter vector the optimiser leaves for expiry i: the fit of the
\* market scenario, a level, a skew and a term slope, padded to the length
\* of the family.
FittedRow(scenario, i) ==
    CASE scenario = "flat" -> <<2, 0, 0>>
      [] scenario = "drop" -> <<10 - 4 * i, 1, 0>>
      [] scenario = "rise" -> <<i, 0, 1>>

FittedParameters(type, scenario, i) ==
    [j \in 1..num_parameters(type) |->
        IF j <= 3 THEN FittedRow(scenario, i)[j] ELSE 0]

(***************************************************************************)
(* volatilityFromStrikeDate(K, expiry_date).                               *)
(***************************************************************************)
\* the tolerance 1e-6 on abs(t1 - t0), in ticks
TimeTol == 2

\* vart and kt are assigned in the interpolation branch only
NotComputed == Quot(0, 0)

\* Variant of StrikeDateBracket: the scan tests texp < self._texp[i], so a
\* query on an interior tenor falls through to the default bracket.
StrikeDateBracket_StrictUpper(texpQ) ==
    LET num_curves == numExpiryDates
        hits == {i \in 2..num_curves : texpQ < texp[i] /\ texpQ > texp[i-1]}
        first == CHOOSE i \in hits : \A j \in hits : i <= j
    IN  IF num_curves = 1 THEN <<1, 1>>
        ELSE IF texpQ <= texp[1] THEN <<1, 1>>
        ELSE IF texpQ >= texp[Len(texp)] THEN <<Len(texp), Len(texp)>>
        ELSE IF hits # {} THEN <<first - 1, first>>
        ELSE <<1, 1>>

\* Variant of StrikeDateBracket: beyond the last time the last two tenors
\* are bracketed, so the surface is extrapolated rather than held flat.
StrikeDateBracket_LastPair(texpQ) ==
    LET num_curves == numExpiryDates
        hits == {i \in 2..num_curves : texpQ <= texp[i] /\ texpQ > texp[i-1]}
        first == CHOOSE i \in hits : \A j \in hits : i <= j
    IN  IF num_curves = 1 THEN <<1, 1>>
        ELSE IF texpQ <= texp[1] THEN <<1, 1>>
        ELSE IF texpQ >= texp[Len(texp)] THEN <<Len(texp) - 1, Len(texp)>>
        ELSE IF hits # {} THEN <<first - 1, first>>
        ELSE <<1, 1>>

\* Variant of StrikeDateBracket: the scan assigns the pair the other way
\* round, index0 = i and index1 = i-1.
StrikeDateBracket_SwappedIndices(texpQ) ==
    LET num_curves == numExpiryDates
        hits == {i \in 2..num_curves : texpQ <= texp[i] /\ texpQ > texp[i-1]}
        first == CHOOSE i \in hits : \A j \in hits : i <= j
    IN  IF num_curves = 1 THEN <<1, 1>>
        ELSE IF texpQ <= texp[1] THEN <<1, 1>>
        ELSE IF texpQ >= texp[Len(texp)] THEN <<Len(texp), Len(texp)>>
        ELSE IF hits # {} THEN <<first, first - 1>>
        ELSE <<1, 1>>

\* the bracket (index0, index1) the strike query selects for the time texpQ
StrikeDateBracket(texpQ) ==
    LET num_curves == numExpiryDates
        hits == {i \in 2..num_curves : texpQ <= texp[i] /\ texpQ > texp[i-1]}
        first == CHOOSE i \in hits : \A j \in hits : i <= j
    IN  IF num_curves = 1 THEN <<1, 1>>
        ELSE IF texpQ <= texp[1] THEN <<1, 1>>
        ELSE IF texpQ >= texp[Len(texp)] THEN <<Len(texp), Len(texp)>>
        ELSE IF hits # {} THEN <<first - 1, first>>
        ELSE <<1, 1>>

\* Variant of StrikeDateVart: the two weights are exchanged.
StrikeDateVart_SwappedWeights(texpQ, t0, t1, vart0, vart1) ==
    Quot((texpQ - t0) * vart0 + (t1 - texpQ) * vart1, t1 - t0)

\* Variant of StrikeDateVart: the second term is subtracted.
StrikeDateVart_SignSlip(texpQ, t0, t1, vart0, vart1) ==
    Quot((texpQ - t0) * vart1 - (t1 - texpQ) * vart0, t1 - t0)

\* vart = ((texp-t0) * vart1 + (t1-texp) * vart0) / (t1 - t0)
StrikeDateVart(texpQ, t0, t1, vart0, vart1) ==
    Quot((texpQ - t0) * vart1 + (t1 - texpQ) * vart0, t1 - t0)

\* Variant of StrikeDateVolt: the test on abs(t1 - t0) is left out.
StrikeDateVolt_NoTolerance(texpQ, t0, t1, vol1, vart) ==
    IF QuotNegative(vart)
    THEN FinError("Negative variance.")
    ELSE [kind |-> "sqrt", num |-> vart.num, den |-> vart.den * texpQ]

\* what the tail of the strike query returns or raises
StrikeDateVolt(texpQ, t0, t1, vol1, vart) ==
    IF Abs(t1 - t0) > TimeTol
    THEN IF QuotNegative(vart)
         THEN FinError("Negative variance.")
         ELSE [kind |-> "sqrt", num |-> vart.num, den |-> vart.den * texpQ]
    ELSE [kind |-> "vol", value |-> vol1]

volatilityFromStrikeDate(K, expiry_date) ==
    LET texpQ == TimeToExpiry(expiry_date, valuation_date)
        volTypeValue == volatility_function_type
        bracket == StrikeDateBracket(texpQ)
        index0 == bracket[1]
        index1 == bracket[2]
        fwd0 == F0T[index0]
        fwd1 == F0T[index1]
        t0 == texp[index0]
        t1 == texp[index1]
        vol0 == volFunction(volTypeValue, parameters[index0], fwd0, K, t0)
        vol1 == IF index1 # index0
                THEN volFunction(volTypeValue, parameters[index1], fwd1, K, t1)
                ELSE vol0
        vart0 == vol0 * vol0 * t0
        vart1 == vol1 * vol1 * t1
        vart == IF Abs(t1 - t0) > TimeTol
                THEN StrikeDateVart(texpQ, t0, t1, vart0, vart1)
                ELSE NotComputed
    IN  [op |-> "volatilityFromStrikeDate",
         K |-> K, expiry_date |-> expiry_date, texp |-> texpQ,
         index0 |-> index0, index1 |-> index1, t0 |-> t0, t1 |-> t1,
         vol0 |-> vol0, vol1 |-> vol1, vart0 |-> vart0, vart1 |-> vart1,
         interpolated |-> Abs(t1 - t0) > TimeTol,
         vart |-> vart,
         result |-> StrikeDateVolt(texpQ, t0, t1, vol1, vart)]

\* Variant of StrikeQuery: the query keeps its time in the first entry of
\* self._texp.
StrikeQuery_StoresTime ==
    /\ \E K \in QueryStrikes, expiry_date \in QueryDates :
          /\ call' = volatilityFromStrikeDate(K, expiry_date)
          /\ texp' = [texp EXCEPT ![1] = call'.texp]
    /\ UNCHANGED <<valuation_date, stock_price, discount_curve, dividend_curve,
                   strikes, numStrikes, expiry_dates, volatility_grid,
                   volatility_function_type, numExpiryDates,
                   parameters, F0T, r, q>>
    /\ UNCHANGED ctor
    /\ UNCHANGED products

StrikeQuery ==
    /\ \E K \in QueryStrikes, expiry_date \in QueryDates :
          call' = volatilityFromStrikeDate(K, expiry_date)
    /\ UNCHANGED surface
    /\ UNCHANGED ctor
    /\ UNCHANGED products

(***************************************************************************)
(* _deltaFit and _solveForSmileStrike: the strike implied by a delta.      *)
(***************************************************************************)
\* f = s * np.exp((r-q)*t)
ExpForward(s, rate, div, t) ==
    IF rate.nan \/ div.nan THEN NaNForward(s)
    ELSE Forward(s, (rate.val - div.val) * t)

\* args = (volTypeValue, s, t, r, q, option_type_value, inverseDeltaTarget, params)
_deltaFit(k, args) ==
    LET volTypeValue == args[1]
        s == args[2]
        t == args[3]
        rate == args[4]
        div == args[5]
        option_type_value == args[6]
        inverseDeltaTarget == args[7]
        params == args[8]
        f == ExpForward(s, rate, div, t)
        v == IF f.nan THEN NaN ELSE Num(volFunction(volTypeValue, params, f, k, t))
        deltaOut == bs_delta(s, t, k, rate, div, v, option_type_value)
        inverseDeltaOut == norminvcdf(<<"abs", deltaOut>>)
    IN  [f |-> f, t |-> t, v |-> v,
         invObjFn |-> <<"-", inverseDeltaTarget, inverseDeltaOut>>]

\* Variant of _solveForSmileStrike: a failed solve returns the initial guess.
_solveForSmileStrike_ReturnsStaleGuess(s, t, rate, div, option_type_value, volatilityTypeValue, deltaTarget, initialGuess, params) ==
    LET inverseDeltaTarget == norminvcdf(Abs(deltaTarget))
        argtuple == <<volatilityTypeValue, s, t, rate, div, option_type_value,
                      inverseDeltaTarget, params>>
    IN  {[raised |-> FALSE,
          K |-> IF solve.raised THEN initialGuess ELSE solve.x,
          fit |-> _deltaFit(IF solve.raised THEN initialGuess ELSE solve.x,
                            argtuple),
          solve |-> solve] :
            solve \in newton_secant(initialGuess, argtuple, 8, 50)}

\* what a solve returns or raises: the strike newton_secant returned, with the
\* objective evaluated there, or the error newton_secant raised (K is then
\* never assigned); tol = 1e-8 is carried by its exponent
_solveForSmileStrike(s, t, rate, div, option_type_value, volatilityTypeValue, deltaTarget, initialGuess, params) ==
    LET inverseDeltaTarget == norminvcdf(Abs(deltaTarget))
        argtuple == <<volatilityTypeValue, s, t, rate, div, option_type_value,
                      inverseDeltaTarget, params>>
    IN  {IF solve.raised
         THEN [raised |-> TRUE, K |-> 0, fit |-> <<>>, solve |-> solve]
         ELSE [raised |-> FALSE, K |-> solve.x,
               fit |-> _deltaFit(solve.x, argtuple), solve |-> solve] :
            solve \in newton_secant(initialGuess, argtuple, 8, 50)}

(***************************************************************************)
(* volatilityFromDeltaDate(callDelta, expiry_date, deltaMethod).           *)
(***************************************************************************)
\* Variant of DeltaDateBracket: the scan tests texp < self._texp[i].
DeltaDateBracket_StrictUpper(texpQ) ==
    LET num_curves == numExpiryDates
        hits == {i \in 2..num_curves : texpQ < texp[i] /\ texpQ > texp[i-1]}
        first == CHOOSE i \in hits : \A j \in hits : i <= j
    IN  IF num_curves = 1 THEN <<1, 1>>
        ELSE IF texpQ <= texp[1] THEN <<1, 1>>
        ELSE IF texpQ > texp[Len(texp)] THEN <<Len(texp), Len(texp)>>
        ELSE IF hits # {} THEN <<first - 1, first>>
        ELSE <<1, 1>>

\* Variant of DeltaDateBracket: the scan starts at the second pair,
\* range(2, num_curves).
DeltaDateBracket_ScanFromSecondPair(texpQ) ==
    LET num_curves == numExpiryDates
        hits == {i \in 3..num_curves : texpQ <= texp[i] /\ texpQ > texp[i-1]}
        first == CHOOSE i \in hits : \A j \in hits : i <= j
    IN  IF num_curves = 1 THEN <<1, 1>>
        ELSE IF texpQ <= texp[1] THEN <<1, 1>>
        ELSE IF texpQ > texp[Len(texp)] THEN <<Len(texp), Len(texp)>>
        ELSE IF hits # {} THEN <<first - 1, first>>
        ELSE <<1, 1>>

\* the bracket (index0, index1) the delta query selects for the time texpQ
DeltaDateBracket(texpQ) ==
    LET num_curves == numExpiryDates
        hits == {i \in 2..num_curves : texpQ <= texp[i] /\ texpQ > texp[i-1]}
        first == CHOOSE i \in hits : \A j \in hits : i <= j
    IN  IF num_curves = 1 THEN <<1, 1>>
        ELSE IF texpQ <= texp[1] THEN <<1, 1>>
        ELSE IF texpQ > texp[Len(texp)] THEN <<Len(texp), Len(texp)>>
        ELSE IF hits # {} THEN <<first - 1, first>>
        ELSE <<1, 1>>

\* Variant of DeltaDateVart: the second term is subtracted.
DeltaDateVart_SignSlip(texpQ, t0, t1, vart0, vart1) ==
    Quot((texpQ - t0) * vart1 - (t1 - texpQ) * vart0, t1 - t0)

\* vart = ((texp-t0) * vart1 + (t1-texp) * vart0) / (t1 - t0)
DeltaDateVart(texpQ, t0, t1, vart0, vart1) ==
    Quot((texpQ - t0) * vart1 + (t1 - texpQ) * vart0, t1 - t0)

\* Variant of DeltaDateKt: the two weights are exchanged.
DeltaDateKt_SwappedWeights(texpQ, t0, t1, K0, K1) ==
    Quot((texpQ - t0) * K0 + (t1 - texpQ) * K1, t1 - t0)

\* kt = ((texp-t0) * K1 + (t1-texp) * K0) / (t1 - t0)
DeltaDateKt(texpQ, t0, t1, K0, K1) ==
    Quot((texpQ - t0) * K1 + (t1 - texpQ) * K0, t1 - t0)

\* what the tail of the delta query returns or raises
DeltaDateVolt(texpQ, t0, t1, vol0, K0, vart, kt) ==
    IF Abs(t1 - t0) > TimeTol
    THEN IF QuotNegative(vart)
         THEN FinError("Failed interpolation due to negative variance.")
         ELSE [kind |-> "pair",
               volt |-> [kind |-> "sqrt", num |-> vart.num, den |-> vart.den * texpQ],
               kt |-> kt]
    ELSE [kind |-> "pair",
          volt |-> [kind |-> "vol", value |-> vol0],
          kt |-> Quot(K0, 1)]

\* K1 is left unassigned when the bracket endpoints coincide, and when the
\* first solve raised
NoSolve == [raised |-> FALSE, K |-> 0, fit |-> <<>>]

\* Variant of DeltaDateTarget: a convention that is passed re-expresses the
\* target delta.
DeltaDateTarget_AppliesMethod(callDelta, deltaMethod) ==
    IF deltaMethod = "None" THEN callDelta ELSE callDelta + 1

\* deltaTarget of both solves: callDelta, whatever deltaMethod is
DeltaDateTarget(callDelta, deltaMethod) == callDelta

\* the outcomes of the delta query, one for each pair of outcomes of the two
\* solves; a solve that raises ends the query with its error, and what the
\* code would have assigned after it (K, vol, vart of that leg and later) is
\* carried at the values of K = 0, which no property reads
volatilityFromDeltaDate(callDelta, expiry_date, deltaMethod) ==
    LET texpQ == TimeToExpiry(expiry_date, valuation_date)
        volTypeValue == volatility_function_type
        s == stock_price
        bracket == DeltaDateBracket(texpQ)
        index0 == bracket[1]
        index1 == bracket[2]
        fwd0 == F0T[index0]
        fwd1 == F0T[index1]
        t0 == texp[index0]
        t1 == texp[index1]
        initialGuess == stock_price
        deltaTarget == DeltaDateTarget(callDelta, deltaMethod)
        solves0 == _solveForSmileStrike(s, texpQ, r[index0], q[index0],
                                        EUROPEAN_CALL, volTypeValue, deltaTarget,
                                        initialGuess, parameters[index0])
        solves1 == IF index1 # index0
                   THEN _solveForSmileStrike(s, texpQ, r[index1], q[index1],
                                             EUROPEAN_CALL, volTypeValue, deltaTarget,
                                             initialGuess, parameters[index1])
                   ELSE {NoSolve}
        outcome(solve0, solve1) ==
            LET K0 == solve0.K
                vol0 == volFunction(volTypeValue, parameters[index0], fwd0, K0, t0)
                K1 == solve1.K
                vol1 == IF index1 # index0
                        THEN volFunction(volTypeValue, parameters[index1], fwd1, K1, t1)
                        ELSE vol0
                vart0 == vol0 * vol0 * t0
                vart1 == vol1 * vol1 * t1
                vart == IF Abs(t1 - t0) > TimeTol
                        THEN DeltaDateVart(texpQ, t0, t1, vart0, vart1)
                        ELSE NotComputed
                kt == IF Abs(t1 - t0) > TimeTol
                      THEN DeltaDateKt(texpQ, t0, t1, K0, K1)
                      ELSE NotComputed
            IN  [op |-> "volatilityFromDeltaDate",
                 callDelta |-> callDelta, expiry_date |-> expiry_date,
                 deltaMethod |-> deltaMethod, texp |-> texpQ,
                 index0 |-> index0, index1 |-> index1, t0 |-> t0, t1 |-> t1,
                 solve0 |-> solve0, solve1 |-> solve1,
                 K0 |-> K0, K1 |-> K1,
                 vol0 |-> vol0, vol1 |-> vol1, vart0 |-> vart0, vart1 |-> vart1,
                 interpolated |-> Abs(t1 - t0) > TimeTol,
                 vart |-> vart,
                 result |-> IF solve0.raised THEN solve0.solve.error
                            ELSE IF solve1.raised THEN solve1.solve.error
                            ELSE DeltaDateVolt(texpQ, t0, t1, vol0, K0, vart, kt)]
    IN  UNION {{outcome(solve0, solve1) :
                   solve1 \in IF solve0.raised THEN {NoSolve} ELSE solves1} :
               solve0 \in solves0}

DeltaQuery ==
    /\ \E callDelta \in QueryDeltas, expiry_date \in QueryDates :
          call' \in volatilityFromDeltaDate(callDelta, expiry_date, "None")
    /\ UNCHANGED surface
    /\ UNCHANGED ctor
    /\ UNCHANGED products

\* no query has run yet
NoCall == [op |-> "none"]

\* __init__ has returned: its frame is gone
Returned == [pc |-> "done"]

\* the strikes of the market grid
GridStrikes == <<9, 11>>

Init ==
    /\ valuation_date = 0
    /\ stock_price = 10
    /\ dividend_curve = "zero"
    /\ strikes = GridStrikes
    /\ numStrikes = Len(GridStrikes)
    /\ \E case \in SurfaceCases :
          /\ volatility_function_type = case.type
          /\ discount_curve = case.discount
          /\ numExpiryDates \in 1..MaxExpiries
          /\ expiry_dates \in [1..numExpiryDates -> TenorDates]
          /\ parameters = [i \in 1..numExpiryDates |->
                              FittedParameters(case.type, case.scenario, i)]
    /\ texp = [i \in 1..numExpiryDates |->
                 TimeToExpiry(expiry_dates[i], valuation_date)]
    /\ F0T = [i \in 1..numExpiryDates |->
                 BuildForward(stock_price, discount_curve, dividend_curve, texp[i])]
    /\ r = [i \in 1..numExpiryDates |-> BuildRate(discount_curve, texp[i])]
    /\ q = [i \in 1..numExpiryDates |-> BuildRate(dividend_curve, texp[i])]
    /\ volatility_grid =
          [i \in 1..numExpiryDates |->
              [j \in 1..numStrikes |->
                  volFunction(volatility_function_type, parameters[i], F0T[i],
                              strikes[j], texp[i])]]
    /\ call = NoCall
    /\ ctor = Returned
    /\ swap = NoProduct
    /\ touch = NoProduct

Next ==
    \/ StrikeQuery
    \/ DeltaQuery

Spec == Init /\ [][Next]_vars

(***************************************************************************)
(* The delta query called with a delta convention.                         *)
(***************************************************************************)
\* the longest expiry list of the surfaces queried with a delta convention
MaxMethodExpiries == 2

\* what a caller may pass as deltaMethod: nothing, or a delta convention
DeltaMethods == {"None", "SPOT_DELTA", "FORWARD_DELTA"}

\* volatilityFromDeltaDate(callDelta, expiry_date, deltaMethod)
DeltaQueryWithMethod ==
    /\ \E callDelta \in QueryDeltas, expiry_date \in QueryDates,
          deltaMethod \in DeltaMethods :
          call' \in volatilityFromDeltaDate(callDelta, expiry_date, deltaMethod)
    /\ UNCHANGED surface
    /\ UNCHANGED ctor
    /\ UNCHANGED products

MethodInit ==
    /\ Init
    /\ numExpiryDates <= MaxMethodExpiries

MethodSpec == MethodInit /\ [][DeltaQueryWithMethod]_vars


(***************************************************************************)
(* Construction: __init__, _buildVolSurface and _solveToHorizon.           *)
(***************************************************************************)
\* the longest expiry list and market grid a surface is constructed from
MaxBuildExpiries == 2

\* expiry dates passed to the constructor, in ticks from the valuation date
BuildDates == {0, 3, 7}

\* lengths of the rows of the market grid passed to the constructor
RowLengths == {1, 2, 3}

\* the volatility quoted in every cell of the market grid
MarketVol == 2

\* the family and the solver a surface is constructed with; the last
\* discriminant is outside the defined families
BuildCases ==
    {[type |-> "CLARK",          solver |-> "NELDER_MEAD"],
     [type |-> "SABR",           solver |-> "NELDER_MEAD_NUMBA"],
     [type |-> "SABR_BETA_ONE",  solver |-> "CONJUGATE_GRADIENT"],
     [type |-> "SABR_BETA_HALF", solver |-> "NELDER_MEAD"],
     [type |-> "BBG",            solver |-> "NELDER_MEAD_NUMBA"],
     [type |-> "CLARK5",         solver |-> "CONJUGATE_GRADIENT"],
     [type |-> "SVI",            solver |-> "NELDER_MEAD"],
     [type |-> "SSVI",           solver |-> "NELDER_MEAD_NUMBA"],
     [type |-> "LOCAL_VOL",      solver |-> "NELDER_MEAD"]}

\* utils/global_types.py, FinSolverTypes
FinSolverTypes == {"NELDER_MEAD", "NELDER_MEAD_NUMBA", "CONJUGATE_GRADIENT"}

\* an exception that is not a FinError, by the name of its class
Exception(name) == [kind |-> "error", error |-> name]

\* a field of the object that no statement has assigned yet
Unset == <<>>

\* nothing has been raised
NoError == [kind |-> "none"]

\* np.zeros(n)
Zeros(n) == [j \in 1..n |-> 0]

\* the market grid with n rows, the first of a entries and the others of b
GridOfShape(n, a, b) ==
    [i \in 1..n |-> [j \in 1..(IF i = 1 THEN a ELSE b) |-> MarketVol]]

\* the expiry lists passed to the constructor: ascending dates
BuildExpiryLists ==
    {dates \in UNION {[1..len -> BuildDates] : len \in 0..MaxBuildExpiries} :
        \A i \in 1..(Len(dates) - 1) : dates[i] < dates[i+1]}

\* the arguments a constructor call may be given
ConstructorArguments ==
    {[valuation_date |-> 0,
      stock_price |-> 10,
      discount_curve |-> "steep",
      dividend_curve |-> "zero",
      expiry_dates |-> dates,
      strikes |-> GridStrikes,
      volatility_grid |-> GridOfShape(n, a, b),
      volatility_function_type |-> case.type,
      finSolverType |-> case.solver] :
        case \in BuildCases,
        dates \in BuildExpiryLists,
        n \in 0..MaxBuildExpiries,
        a \in {1, 2},
        b \in RowLengths}

\* tot of _obj: the sum over the first numStrikes strikes of
\* (fittedVol - mktVol)**2
RECURSIVE ObjTotal(_, _, _, _, _, _, _)
ObjTotal(volTypeValue, params, f, strikesArg, row, t, n) ==
    IF n = 0 THEN 0
    ELSE LET fittedVol == volFunction(volTypeValue, params, f, strikesArg[n], t)
             mktVol == row[n]
             diff == fittedVol - mktVol
         IN  ObjTotal(volTypeValue, params, f, strikesArg, row, t, n - 1) + diff * diff

\* args = (s, t, r, q, strikes, index, volatility_grid, volTypeValue); what
\* the objective evaluates the smile at, the cells it reads and what it
\* returns or raises
_obj(params, args) ==
    LET s == args[1]
        t == args[2]
        rate == args[3]
        div == args[4]
        strikesArg == args[5]
        index == args[6]
        grid == args[7]
        volTypeValue == args[8]
        f == ExpForward(s, rate, div, t)
        nStrikes == Len(grid[1])
        inRange == /\ nStrikes <= Len(strikesArg)
                   /\ nStrikes <= Len(grid[index])
    IN  [volTypeValue |-> volTypeValue, f |-> f, t |-> t, index |-> index,
         cells |-> {<<index, j>> : j \in 1..nStrikes},
         value |-> IF ~inRange THEN Exception("IndexError")
                   ELSE IF f.nan THEN [kind |-> "value", tot |-> NaN]
                   ELSE [kind |-> "value",
                         tot |-> Num(ObjTotal(volTypeValue, params, f, strikesArg,
                                              grid[index], t, nStrikes))]]

\* the parameter vectors an optimiser started at x0 may end on
Candidates(x0) == {x0, [j \in DOMAIN x0 |-> x0[j] + 1]}

\* scipy.optimize.minimize(_obj, x0, args, method, tol) and
\* utils/solver_nm.py nelder_mead(_obj, x0, args, tol_f, tol_x, max_iter):
\* the run raises (always, when the objective does), or ends on a vector,
\* converged or not
Optimise(method, x0, args, tol) ==
    LET seen == _obj(x0, args)
        run(o) == [method |-> method, x0 |-> x0, obj |-> seen, tol |-> tol,
                   raised |-> o.raised, x |-> o.x, success |-> o.success]
        raises == [raised |-> TRUE, x |-> x0, success |-> FALSE]
        ends == {[raised |-> FALSE, x |-> x, success |-> ok] :
                    x \in Candidates(x0), ok \in BOOLEAN}
    IN  {run(o) : o \in IF seen.value.kind = "error" THEN {raises}
                        ELSE {raises} \cup ends}

\* the method of the primary run of a solver type
PrimaryMethod(finSolverType) ==
    CASE finSolverType = "NELDER_MEAD_NUMBA" -> "nelder_mead"
      [] finSolverType = "NELDER_MEAD" -> "Nelder-Mead"
      [] finSolverType = "CONJUGATE_GRADIENT" -> "CG"

\* the except clause runs, and its test lets the CG run happen
RetriesAfter(primary, finSolverType) ==
    primary.raised /\ finSolverType # "CONJUGATE_GRADIENT"

\* the optimiser runs of one expiry, in order, and what the function returns
\* or raises: xopt of the last run, the exception of the CG run of the except
\* clause, or UnboundLocalError when the except clause leaves xopt unassigned
_solveToHorizon(s, t, rate, div, strikesArg, timeIndex, grid, volTypeValue, xinits, finSolverType) ==
    LET tol == 6
        args == <<s, t, rate, div, strikesArg, timeIndex, grid, volTypeValue>>
        primaries == Optimise(PrimaryMethod(finSolverType), xinits, args, tol)
        retries == Optimise("CG", xinits, args, tol)
        params(run) == [kind |-> "params", x |-> run.x]
    IN  {[runs |-> <<p>>, result |-> params(p)] :
            p \in {p \in primaries : ~p.raised}}
        \cup
        {[runs |-> <<p, c>>,
          result |-> IF ~c.raised THEN params(c)
                     ELSE IF c.obj.value.kind = "error" THEN c.obj.value
                     ELSE Exception("raised by minimize")] :
            p \in {p \in primaries : RetriesAfter(p, finSolverType)},
            c \in retries}
        \cup
        {[runs |-> <<p>>, result |-> Exception("UnboundLocalError")] :
            p \in {p \in primaries :
                      p.raised /\ ~RetriesAfter(p, finSolverType)}}

\* the frame of a constructor call that has not started
Frame(a) ==
    [pc |-> "__init__", args |-> a, i |-> 0, xinits |-> <<>>, runs |-> <<>>,
     raised |-> NoError]

\* what __init__ raises before it assigns the grid, if anything
GridCheck(expiry_datesArg, strikesArg, grid) ==
    LET nExpiryDates == Len(expiry_datesArg)
        nStrikes == Len(strikesArg)
        n == Len(grid)
    IN  IF n = 0 THEN Exception("IndexError")
        ELSE IF n # nExpiryDates
        THEN FinError("1st dimension of vol grid is not nExpiryDates")
        ELSE IF Len(grid[1]) # nStrikes
        THEN FinError("2nd dimension of the vol matrix is not nStrikes")
        ELSE NoError

\* __init__ up to its call of _buildVolSurface
__init__ ==
    /\ ctor.pc = "__init__"
    /\ LET a == ctor.args
           raised == GridCheck(a.expiry_dates, a.strikes, a.volatility_grid)
       IN  /\ valuation_date' = a.valuation_date
           /\ stock_price' = a.stock_price
           /\ discount_curve' = a.discount_curve
           /\ dividend_curve' = a.dividend_curve
           /\ IF raised # NoError
              THEN /\ ctor' = [ctor EXCEPT !.pc = "raised", !.raised = raised]
                   /\ UNCHANGED <<strikes, numStrikes, expiry_dates,
                                  numExpiryDates, volatility_grid,
                                  volatility_function_type>>
              ELSE /\ strikes' = a.strikes
                   /\ numStrikes' = Len(a.strikes)
                   /\ expiry_dates' = a.expiry_dates
                   /\ numExpiryDates' = Len(a.expiry_dates)
                   /\ volatility_grid' = a.volatility_grid
                   /\ volatility_function_type' = a.volatility_function_type
                   /\ ctor' = [ctor EXCEPT !.pc = "_buildVolSurface"]
    /\ UNCHANGED <<parameters, texp, F0T, r, q, call>>
    /\ UNCHANGED products

\* _buildVolSurface up to its computation loop: the parameter count, the
\* arrays, the derived quantities of every expiry and the first guess
_buildVolSurface ==
    /\ ctor.pc = "_buildVolSurface"
    /\ IF UnknownModelType(volatility_function_type)
       THEN /\ ctor' = [ctor EXCEPT !.pc = "raised",
                                    !.raised = FinError("Unknown Model Type")]
            /\ UNCHANGED <<parameters, texp, F0T, r, q>>
       ELSE LET n == num_parameters(volatility_function_type)
                spotDate == valuation_date
                times == [i \in 1..numExpiryDates |->
                             TimeToExpiry(expiry_dates[i], spotDate)]
            IN  /\ parameters' = [i \in 1..numExpiryDates |-> Zeros(n)]
                /\ texp' = times
                /\ F0T' = [i \in 1..numExpiryDates |->
                              BuildForward(stock_price, discount_curve,
                                           dividend_curve, times[i])]
                /\ r' = [i \in 1..numExpiryDates |->
                            BuildRate(discount_curve, times[i])]
                /\ q' = [i \in 1..numExpiryDates |->
                            BuildRate(dividend_curve, times[i])]
                /\ ctor' = [ctor EXCEPT
                               !.pc = IF numExpiryDates = 0 THEN "done"
                                      ELSE "calibrate",
                               !.i = 1,
                               !.xinits = <<Zeros(n)>>]
    /\ UNCHANGED <<valuation_date, stock_price, discount_curve, dividend_curve,
                   strikes, numStrikes, expiry_dates, volatility_grid,
                   volatility_function_type, numExpiryDates, call>>
    /\ UNCHANGED products

\* Variant of InitialGuess: every expiry is started from the first guess.
InitialGuess_Cold(xinits, i) == xinits[1]

\* xinits[i], the guess expiry i is started from
InitialGuess(xinits, i) == xinits[i]

\* one pass of the computation loop of _buildVolSurface
CalibrateExpiry ==
    /\ ctor.pc = "calibrate"
    /\ LET i == ctor.i
       IN  \E out \in _solveToHorizon(stock_price, texp[i], r[i], q[i], strikes,
                                      i, volatility_grid,
                                      volatility_function_type,
                                      InitialGuess(ctor.xinits, i),
                                      ctor.args.finSolverType) :
              IF out.result.kind = "error"
              THEN /\ ctor' = [ctor EXCEPT !.pc = "raised",
                                           !.raised = out.result,
                                           !.runs = Append(@, out.runs)]
                   /\ UNCHANGED parameters
              ELSE /\ parameters' = [parameters EXCEPT ![i] = out.result.x]
                   /\ ctor' = [ctor EXCEPT
                                  !.pc = IF i = numExpiryDates THEN "done"
                                         ELSE "calibrate",
                                  !.i = i + 1,
                                  !.xinits = Append(@, out.result.x),
                                  !.runs = Append(@, out.runs)]
    /\ UNCHANGED <<valuation_date, stock_price, discount_curve, dividend_curve,
                   strikes, numStrikes, expiry_dates, volatility_grid,
                   volatility_function_type, numExpiryDates, texp, F0T, r, q,
                   call>>
    /\ UNCHANGED products

\* a call of volFunction by a client of the module
EvaluateSmile ==
    /\ \E case \in BuildCases :
          LET params == <<2, 1, 0, 0, 0>>
              f == Forward(10, 0)
              k == 9
              t == 1
          IN  call' = [op |-> "volFunction",
                       vol_function_type_value |-> case.type,
                       params |-> params, f |-> f, k |-> k, t |-> t,
                       branch |-> volFunctionBranch(case.type),
                       result |-> volFunction(case.type, params, f, k, t)]
    /\ UNCHANGED surface
    /\ UNCHANGED ctor
    /\ UNCHANGED products

BuildInit ==
    /\ valuation_date = Unset
    /\ stock_price = Unset
    /\ discount_curve = Unset
    /\ dividend_curve = Unset
    /\ strikes = Unset
    /\ numStrikes = Unset
    /\ expiry_dates = Unset
    /\ volatility_grid = Unset
    /\ volatility_function_type = Unset
    /\ numExpiryDates = Unset
    /\ parameters = Unset
    /\ texp = Unset
    /\ F0T = Unset
    /\ r = Unset
    /\ q = Unset
    /\ call = NoCall
    /\ \E a \in ConstructorArguments : ctor = Frame(a)
    /\ swap = NoProduct
    /\ touch = NoProduct

BuildNext ==
    \/ __init__
    \/ _buildVolSurface
    \/ CalibrateExpiry
    \/ EvaluateSmile

BuildSpec == BuildInit /\ [][BuildNext]_vars

(***************************************************************************)
(* Vocabulary of the properties.                                           *)
(***************************************************************************)
IsStrikeQuery == call.op = "volatilityFromStrikeDate"

IsDeltaQuery == call.op = "volatilityFromDeltaDate"

IsQuery == call.op # "none"

\* the query is a delta query one of whose strike solves raised
SolveRaised ==
    /\ IsDeltaQuery
    /\ (call.solve0.raised \/ call.solve1.raised)

\* the errors of an interpolated variance below zero, of the strike query and
\* of the delta query
NegativeVariance ==
    {FinError("Negative variance."),
     FinError("Failed interpolation due to negative variance.")}

StrictlyAscending == \A i \in 1..(numExpiryDates - 1) : texp[i] < texp[i+1]

NonNegativeTimes == \A i \in 1..numExpiryDates : texp[i] >= 0

PositiveTimes == \A i \in 1..numExpiryDates : texp[i] > 0

\* adjacent times differ by more than the tolerance
WellSeparated ==
    \A i \in 1..(numExpiryDates - 1) : texp[i+1] - texp[i] > TimeTol

\* evaluate(family, fittedParams[i], forward[i], K, t_i)
Smile(i, K) ==
    volFunction(volatility_function_type, parameters[i], F0T[i], K, texp[i])

\* the query returned the volatility v itself
Direct(v) == [kind |-> "vol", value |-> v]

(***************************************************************************)
(* C1.  Bracket reduction.                                                 *)
(***************************************************************************)
\* C1, as claimed: on a surface of non-negative times that ascend by more
\* than the tolerance, a strike query
\* at the time of any calibrated tenor i selects the bracket (i, i) and
\* returns the smile value of tenor i directly.
C1_BracketCoincidesAtEveryTenor ==
    (IsStrikeQuery /\ WellSeparated /\ NonNegativeTimes) =>
        \A i \in 1..numExpiryDates :
            call.texp = texp[i] =>
                /\ call.index0 = i
                /\ call.index1 = i
                /\ call.result = Direct(Smile(i, call.K))

\* C1, amended: on a surface with strictly ascending non-negative times, a
\* strike query at the time of the first or the last tenor i selects the
\* bracket (i, i) and returns the smile value of tenor i directly; at the time
\* of an interior tenor i it selects the bracket (i-1, i) and, when the two
\* times differ by more than the tolerance, goes through the interpolation
\* branch and returns the root of a variance ratio equal to the square of
\* the smile value of tenor i (else it returns that smile value directly).
C1_BracketReduction ==
    (IsStrikeQuery /\ StrictlyAscending /\ NonNegativeTimes) =>
        \A i \in 1..numExpiryDates :
            call.texp = texp[i] =>
                IF i = 1 \/ i = numExpiryDates
                THEN /\ call.index0 = i
                     /\ call.index1 = i
                     /\ call.result = Direct(Smile(i, call.K))
                ELSE /\ call.index0 = i - 1
                     /\ call.index1 = i
                     /\ IF texp[i] - texp[i-1] > TimeTol
                        THEN /\ call.interpolated
                             /\ call.result.kind = "sqrt"
                             /\ QuotEquals(Quot(call.result.num, call.result.den),
                                           Smile(i, call.K) * Smile(i, call.K))
                        ELSE call.result = Direct(Smile(i, call.K))

\* C1, witness: a strike query at an interior tenor that interpolated.
C1_Witness ==
    /\ IsStrikeQuery /\ StrictlyAscending /\ NonNegativeTimes
    /\ numExpiryDates = 3
    /\ call.texp = texp[2]
    /\ call.index0 = 1 /\ call.index1 = 2
    /\ call.result.kind = "sqrt"

(***************************************************************************)
(* C2.  At and beyond the latest expiry.                                   *)
(***************************************************************************)
\* C2, as claimed: on a surface with two or more positive times that ascend
\* by more than the tolerance, a query (by strike or by delta) at a time at or beyond the last one
\* selects the bracket (last, last), and the bracket the delta query selects
\* for a time is the one the strike query selects for it.
C2_LatestBracketInBothQueries ==
    (IsQuery /\ WellSeparated /\ PositiveTimes /\ numExpiryDates >= 2) =>
        /\ call.texp >= texp[numExpiryDates] =>
               /\ call.index0 = numExpiryDates
               /\ call.index1 = numExpiryDates
        /\ IsDeltaQuery =>
               <<call.index0, call.index1>> = StrikeDateBracket(call.texp)

(***************************************************************************)
(* C3.  Interior bracket selection.                                        *)
(***************************************************************************)
\* C3: on a surface with strictly ascending times, a query (by strike or by
\* delta) at a time strictly between the first and the last selects the
\* bracket (k-1, k) of the k with t_{k-1} < tau <= t_k, and that k is unique.
C3_InteriorBracket ==
    (/\ IsQuery /\ StrictlyAscending /\ numExpiryDates >= 2
     /\ texp[1] < call.texp /\ call.texp < texp[numExpiryDates]) =>
        LET ks == {k \in 2..numExpiryDates :
                      texp[k-1] < call.texp /\ call.texp <= texp[k]}
        IN  /\ Cardinality(ks) = 1
            /\ \A k \in ks : call.index0 = k - 1 /\ call.index1 = k

\* C3, witness: a delta query at the time of the interior tenor of three.
C3_Witness ==
    /\ IsDeltaQuery /\ StrictlyAscending /\ numExpiryDates = 3
    /\ call.texp = texp[2]
    /\ call.index0 = 1 /\ call.index1 = 2

(***************************************************************************)
(* C4.  Flat extrapolation.                                                *)
(***************************************************************************)
\* the boundary tenor of a time at or below the first or at or above the last
BoundaryTenor(tau) ==
    IF numExpiryDates = 1 \/ tau <= texp[1] THEN 1 ELSE numExpiryDates

\* C4: a strike query at a time at or below the first tenor or at or above the
\* last returns the smile value of the boundary tenor at the strike, which
\* does not mention the query time.
C4_FlatExtrapolation ==
    (/\ IsStrikeQuery
     /\ call.texp <= texp[1] \/ call.texp >= texp[numExpiryDates]) =>
        /\ call.result = Direct(Smile(BoundaryTenor(call.texp), call.K))
        /\ \A d \in QueryDates :
              LET tau == TimeToExpiry(d, valuation_date)
              IN  (/\ tau <= texp[1] \/ tau >= texp[numExpiryDates]
                   /\ BoundaryTenor(tau) = BoundaryTenor(call.texp)) =>
                      volatilityFromStrikeDate(call.K, d).result = call.result

\* C4, witness: a strike query strictly beyond the last of several ascending
\* tenors, whose smile value differs from the one of the tenor before.
C4_Witness ==
    /\ IsStrikeQuery /\ StrictlyAscending /\ numExpiryDates >= 2
    /\ call.texp > texp[numExpiryDates]
    /\ call.result = Direct(Smile(numExpiryDates, call.K))
    /\ Smile(numExpiryDates, call.K) # Smile(numExpiryDates - 1, call.K)

(***************************************************************************)
(* C5.  Single-tenor degeneracy.                                           *)
(***************************************************************************)
\* C5: on a surface of one expiry every query (by strike or by delta, before,
\* at or after the expiry) selects the bracket (0, 0) of the code, and the
\* strike query returns the smile value of that expiry.
C5_SingleTenor ==
    (IsQuery /\ numExpiryDates = 1) =>
        /\ call.index0 = 1
        /\ call.index1 = 1
        /\ IsStrikeQuery => call.result = Direct(Smile(1, call.K))

\* C5, witness: a strike query after the only expiry.
C5_Witness ==
    /\ IsStrikeQuery /\ numExpiryDates = 1
    /\ call.texp > texp[1]
    /\ call.result = Direct(Smile(1, call.K))

(***************************************************************************)
(* C6.  Total-variance interpolation.                                      *)
(***************************************************************************)
\* var(tau) = ((tau-t0)*var1 + (t1-tau)*var0)/(t1-t0) with var = vol^2 * t of
\* the smile values at the strike K of the two tenors i0 and i1
InterpolatedVariance(tau, i0, i1, K) ==
    LET var0 == Smile(i0, K) * Smile(i0, K) * texp[i0]
        var1 == Smile(i1, K) * Smile(i1, K) * texp[i1]
    IN  Quot((tau - texp[i0]) * var1 + (texp[i1] - tau) * var0,
             texp[i1] - texp[i0])

\* the square of a returned volatility, as a quotient
VolSquared(res) ==
    IF res.kind = "vol" THEN Quot(res.value * res.value, 1)
    ELSE Quot(res.num, res.den)

\* C6, as claimed: on a surface of positive times, whenever the bracket
\* endpoints differ the strike query returns a volatility v with
\* v^2 * tau = ((tau-t0)*var1 + (t1-tau)*var0)/(t1-t0).
C6_InterpolatesWheneverEndpointsDiffer ==
    (IsStrikeQuery /\ PositiveTimes /\ call.index0 # call.index1) =>
        LET target == InterpolatedVariance(call.texp, call.index0, call.index1, call.K)
            vsq == VolSquared(call.result)
        IN  /\ call.result.kind \in {"vol", "sqrt"}
            /\ vsq.den # 0
            /\ vsq.num * call.texp * target.den = target.num * vsq.den

\* C6, amended: whenever the bracket endpoints differ and their times differ
\* by more than the tolerance, the strike query computes
\* var(tau) = ((tau-t0)*var1 + (t1-tau)*var0)/(t1-t0), which equals var1 at
\* tau = t1 and lies between var0 and var1 (t0 < tau <= t1), and returns
\* sqrt(var(tau)/tau) unless var(tau) is negative, when it raises; when the
\* endpoints differ and their times are within the tolerance it returns the
\* smile value of the upper endpoint without interpolating.
C6_TotalVarianceInterpolation ==
    (IsStrikeQuery /\ call.index0 # call.index1) =>
        LET target == InterpolatedVariance(call.texp, call.index0, call.index1, call.K)
            var0 == Smile(call.index0, call.K) * Smile(call.index0, call.K) * call.t0
            var1 == Smile(call.index1, call.K) * Smile(call.index1, call.K) * call.t1
            lo == IF var0 < var1 THEN var0 ELSE var1
            hi == IF var0 < var1 THEN var1 ELSE var0
        IN  /\ call.t0 < call.texp /\ call.texp <= call.t1
            /\ IF call.t1 - call.t0 > TimeTol
               THEN /\ call.interpolated
                    /\ call.vart = target
                    /\ target.den > 0
                    /\ lo * target.den <= target.num
                    /\ target.num <= hi * target.den
                    /\ call.texp = call.t1 => QuotEquals(target, var1)
                    /\ IF target.num < 0
                       THEN call.result = FinError("Negative variance.")
                       ELSE call.result = [kind |-> "sqrt", num |-> target.num,
                                           den |-> target.den * call.texp]
               ELSE /\ ~call.interpolated
                    /\ call.result = Direct(Smile(call.index1, call.K))

\* C6, witness: a strike query strictly inside a bracket of two tenors that
\* differ in time by more than the tolerance and in total variance.
C6_Witness ==
    /\ IsStrikeQuery /\ PositiveTimes
    /\ call.index0 # call.index1 /\ call.interpolated
    /\ call.t0 < call.texp /\ call.texp < call.t1
    /\ call.vart0 # call.vart1
    /\ call.result.kind = "sqrt"
    /\ call.result.num = (call.texp - call.t0) * call.vart1
                            + (call.t1 - call.texp) * call.vart0

(***************************************************************************)
(* C7.  A volatility drop and the negative-variance error.                 *)
(***************************************************************************)
\* the volatility drops from v0 at t0 to v1 at t1 by so much that the total
\* variance drops
LargeDrop(v0, v1, t0, t1) ==
    /\ v0 > v1 /\ v1 > 0
    /\ v0 * v0 * t0 > v1 * v1 * t1

\* C7, as claimed: when a query has interpolated between two adjacent tenors
\* of positive times across a large volatility drop, some query time between
\* the two tenors makes the strike query raise the negative-variance error.
C7_LargeDropRaises ==
    (/\ IsStrikeQuery /\ PositiveTimes /\ call.interpolated
     /\ LargeDrop(call.vol0, call.vol1, call.t0, call.t1)) =>
        \E d \in QueryDates :
            LET tau == TimeToExpiry(d, valuation_date)
                again == volatilityFromStrikeDate(call.K, d)
            IN  /\ call.t0 < tau /\ tau <= call.t1
                /\ again.index0 = call.index0 /\ again.index1 = call.index1
                /\ again.result.kind = "error"

\* C7, amended: a volatility drop between two adjacent tenors of non-negative
\* times, however large, never makes the interpolated total variance negative,
\* and the query returns a volatility; a query whose strike solves, if any,
\* returned raises the negative-variance error exactly when it interpolates
\* and the interpolated variance is negative, which takes a bracket endpoint
\* with a negative time to expiry.
C7_NoErrorOnNonNegativeTimes ==
    (IsQuery /\ ~SolveRaised) =>
        /\ (call.t0 >= 0 /\ call.t1 >= 0) => call.result.kind # "error"
        /\ call.result \in NegativeVariance <=>
               (call.interpolated /\ QuotNegative(call.vart))
        /\ call.result.kind = "error" =>
               /\ call.result \in NegativeVariance
               /\ (call.t0 < 0 \/ call.t1 < 0)

\* C7, witness: a strike query strictly between two tenors of positive times
\* with a large volatility drop, which returned a volatility.
C7_Witness ==
    /\ IsStrikeQuery /\ PositiveTimes /\ call.interpolated
    /\ LargeDrop(call.vol0, call.vol1, call.t0, call.t1)
    /\ call.t0 < call.texp /\ call.texp < call.t1
    /\ call.result.kind = "sqrt"

(***************************************************************************)
(* C8.  Non-negative interpolated variance.                                *)
(***************************************************************************)
\* C8: when a query (by strike or by delta, its strike solves having
\* returned) selects two distinct tenors of non-negative times, the query
\* time lies in (t0, t1] and the total variance it interpolates is
\* non-negative.
C8_InterpolatedVarianceNonNegative ==
    (/\ IsQuery /\ ~SolveRaised /\ call.index0 # call.index1
     /\ call.t0 >= 0 /\ call.t1 >= 0) =>
        /\ call.t0 < call.texp /\ call.texp <= call.t1
        /\ call.interpolated =>
               /\ call.vart.den > 0
               /\ call.vart.num >= 0
               /\ call.vart.num = (call.texp - call.t0) * call.vart1
                                     + (call.t1 - call.texp) * call.vart0

\* C8, witness: a delta query that interpolated between two tenors of
\* non-negative times whose total variance drops.
C8_Witness ==
    /\ IsDeltaQuery /\ ~SolveRaised
    /\ call.index0 # call.index1 /\ call.interpolated
    /\ call.t0 >= 0
    /\ call.vart0 > call.vart1
    /\ call.vart.num > 0

(***************************************************************************)
(* C9.  The strike solve of a bracket endpoint.                            *)
(***************************************************************************)
\* C9, as claimed: on a surface of positive times and for a positive query
\* time, the strike solve of each bracket endpoint of the delta query (when
\* both solves returned) runs at
\* that endpoint's own time to expiry and forward, the ones its volatility is
\* then evaluated at.
C9_SolveUsesOwnExpiry ==
    (IsDeltaQuery /\ ~SolveRaised /\ PositiveTimes /\ call.texp > 0) =>
        /\ call.solve0.fit.t = call.t0
        /\ call.solve0.fit.f = F0T[call.index0]
        /\ call.index1 # call.index0 =>
               /\ call.solve1.fit.t = call.t1
               /\ call.solve1.fit.f = F0T[call.index1]

(***************************************************************************)
(* C11.  The implied strike of the delta query.                            *)
(***************************************************************************)
\* the time-linear interpolation of the two solved strikes
InterpolatedStrike(tau, t0, t1, K0, K1) ==
    Quot((tau - t0) * K1 + (t1 - tau) * K0, t1 - t0)

\* C11, as claimed: on a surface of positive times, whenever the bracket
\* endpoints of a delta query differ and both solves returned, the strike it
\* returns is
\* ((tau-t0)*K1 + (t1-tau)*K0)/(t1-t0) of the two solved strikes.
C11_InterpolatesStrikeWheneverEndpointsDiffer ==
    (IsDeltaQuery /\ ~SolveRaised /\ PositiveTimes /\ call.index0 # call.index1) =>
        LET target == InterpolatedStrike(call.texp, call.t0, call.t1,
                                         call.solve0.K, call.solve1.K)
        IN  /\ call.result.kind = "pair"
            /\ call.result.kt.den # 0
            /\ target.den # 0
            /\ call.result.kt.num * target.den = target.num * call.result.kt.den

\* C11, amended: in a delta query the volatility of each leg is the smile
\* value of its tenor at the strike solved for that tenor (K0 for the lower,
\* K1 for the upper).  When the bracket endpoints differ and their times
\* differ by more than the tolerance, the strike returned (unless a solve or
\* the negative-variance test raised) is
\* ((tau-t0)*K1 + (t1-tau)*K0)/(t1-t0); when the endpoints differ and their
\* times are within the tolerance, or when the endpoints coincide, the strike
\* returned is K0 and the volatility returned is the smile value of the lower
\* endpoint at K0.
C11_ImpliedStrike ==
    (IsDeltaQuery /\ ~SolveRaised) =>
        /\ call.K0 = call.solve0.K
        /\ call.vol0 = Smile(call.index0, call.K0)
        /\ call.index0 # call.index1 =>
               /\ call.K1 = call.solve1.K
               /\ call.vol1 = Smile(call.index1, call.K1)
        /\ IF call.index0 # call.index1 /\ Abs(call.t1 - call.t0) > TimeTol
           THEN call.result.kind # "error" =>
                   /\ call.result.kind = "pair"
                   /\ call.result.kt =
                          InterpolatedStrike(call.texp, call.t0, call.t1,
                                             call.K0, call.K1)
           ELSE /\ call.result.kind = "pair"
                /\ call.result.kt = Quot(call.K0, 1)
                /\ call.result.volt = Direct(Smile(call.index0, call.K0))

\* C11, witness: a delta query strictly inside a bracket of two tenors more
\* than the tolerance apart, whose two solves returned different strikes.
C11_Witness ==
    /\ IsDeltaQuery /\ ~SolveRaised
    /\ call.index0 # call.index1 /\ call.interpolated
    /\ call.t0 < call.texp /\ call.texp < call.t1
    /\ call.K0 # call.K1
    /\ call.result.kind = "pair"
    /\ call.result.kt.num = (call.texp - call.t0) * call.K1
                               + (call.t1 - call.texp) * call.K0

(***************************************************************************)
(* Vocabulary of the properties of construction.                           *)
(***************************************************************************)
\* the constructor has calibrated, or is calibrating, its expiries
Calibrating == ctor.pc = "calibrate"

Constructed == ctor.pc = "done"

Aborted == ctor.pc = "raised"

\* the expiries the computation loop has been through
CalibratedExpiries == 1..Len(ctor.runs)

\* the optimiser run of expiry e whose vector was kept (the last one)
LastRun(e) == ctor.runs[e][Len(ctor.runs[e])]

\* an optimiser run failed: it raised or it ended without converging
Failed(run) == run.raised \/ ~run.success

\* every expiry passed to the constructor is after the valuation date
ExpiriesAfterValuation ==
    \A i \in DOMAIN ctor.args.expiry_dates :
        ctor.args.expiry_dates[i] > ctor.args.valuation_date

(***************************************************************************)
(* C12.  Solver fallback.                                                  *)
(***************************************************************************)
\* C12, as claimed: with expiries after the valuation date, for every expiry
\* the loop has been through, when the primary run raised or ended without
\* converging and the solver type is not conjugate gradient, a second run
\* followed, with method CG and from the guess of the primary run, and no
\* third.
C12_RetriesOnEveryFailure ==
    ExpiriesAfterValuation =>
        \A e \in CalibratedExpiries :
            LET runs == ctor.runs[e]
            IN  (/\ Failed(runs[1])
                 /\ ctor.args.finSolverType # "CONJUGATE_GRADIENT") =>
                    /\ Len(runs) = 2
                    /\ runs[2].method = "CG"
                    /\ runs[2].x0 = runs[1].x0

(***************************************************************************)
(* C13.  A failed retry.                                                   *)
(***************************************************************************)
\* C13, as claimed: with expiries after the valuation date, when the
\* conjugate-gradient retry of an expiry raised or ended without converging,
\* construction has aborted with an error; and on a constructed surface the
\* parameters of every expiry that was retried are the vector of a retry
\* that converged.
C13_NoUnconvergedParameters ==
    ExpiriesAfterValuation =>
        /\ \A e \in CalibratedExpiries :
               (Len(ctor.runs[e]) = 2 /\ Failed(ctor.runs[e][2])) =>
                   /\ Aborted
                   /\ ctor.raised.kind = "error"
        /\ Constructed =>
               \A e \in 1..numExpiryDates :
                   Len(ctor.runs[e]) = 2 =>
                       /\ ~Failed(LastRun(e))
                       /\ parameters[e] = LastRun(e).x

(***************************************************************************)
(* C14.  Warm-start ordering.                                              *)
(***************************************************************************)
\* C14: the computation loop goes through the expiries in ascending order,
\* each once (the k-th entry of the log is about expiry k, the loop stands at
\* the expiry after the last logged, and a constructed surface has logged
\* every expiry); every run of the first expiry starts from the zero vector
\* of the family's length and every run of a later expiry from the
\* parameters stored for the expiry before it.
C14_WarmStartOrdering ==
    (Calibrating \/ Constructed) =>
        /\ Calibrating => Len(ctor.runs) = ctor.i - 1
        /\ Constructed => Len(ctor.runs) = numExpiryDates
        /\ \A e \in CalibratedExpiries :
               \A k \in 1..Len(ctor.runs[e]) :
                   LET run == ctor.runs[e][k]
                   IN  /\ run.obj.index = e
                       /\ run.x0 = IF e = 1
                                    THEN Zeros(Len(parameters[1]))
                                    ELSE parameters[e - 1]
        /\ \A e \in CalibratedExpiries : parameters[e] = LastRun(e).x

\* C14, witness: a constructed surface of two expiries, the first fitted
\* away from the zero vector and the second started from that fit.
C14_Witness ==
    /\ Constructed /\ numExpiryDates = 2
    /\ parameters[1] # Zeros(Len(parameters[1]))
    /\ ctor.runs[2][1].x0 = parameters[1]
    /\ ctor.runs[1][1].x0 = Zeros(Len(parameters[1]))

(***************************************************************************)
(* C15.  Grid dimensions.                                                  *)
(***************************************************************************)
\* the grid's row count differs from the number of expiries, or its column
\* count (the length of its first row, when it has one) from the number of
\* strikes
DimensionsMismatch(a) ==
    \/ Len(a.volatility_grid) # Len(a.expiry_dates)
    \/ /\ Len(a.volatility_grid) > 0
       /\ Len(a.volatility_grid[1]) # Len(a.strikes)

DimensionErrors ==
    {FinError("1st dimension of vol grid is not nExpiryDates"),
     FinError("2nd dimension of the vol matrix is not nStrikes")}

\* C15, as claimed: once __init__ has checked its arguments, a grid whose
\* dimensions mismatch (an empty expiry list and an empty grid included) has
\* made construction raise one of the two dimension errors, with no derived
\* quantity computed and no optimiser run.
C15_DimensionErrorOnMismatch ==
    (ctor.pc # "__init__" /\ DimensionsMismatch(ctor.args)) =>
        /\ Aborted
        /\ ctor.raised \in DimensionErrors
        /\ ctor.runs = <<>>
        /\ texp = Unset /\ F0T = Unset /\ r = Unset /\ q = Unset
        /\ parameters = Unset

(***************************************************************************)
(* C16.  Rectangular grid.                                                 *)
(***************************************************************************)
\* C16, as claimed: on a surface constructed with expiries after the
\* valuation date, every expiry by a primary run that converged, the grid
\* has one row for each expiry and every row has one entry for each strike;
\* and every run of the objective read, of the row of its expiry, the cell of
\* every strike (all of them existing cells).
C16_GridIsRectangular ==
    (/\ Constructed /\ ExpiriesAfterValuation
     /\ \A e \in CalibratedExpiries :
            Len(ctor.runs[e]) = 1 /\ ~Failed(ctor.runs[e][1])) =>
        /\ Len(volatility_grid) = numExpiryDates
        /\ \A i \in 1..numExpiryDates :
               Len(volatility_grid[i]) = numStrikes
        /\ \A e \in CalibratedExpiries :
               \A k \in 1..Len(ctor.runs[e]) :
                   ctor.runs[e][k].obj.cells =
                       {<<e, j>> : j \in DOMAIN volatility_grid[e]}

(***************************************************************************)
(* C17.  Parameter counts.                                                 *)
(***************************************************************************)
\* the parameter count the families are specified with
FamilyParameterCount(type) ==
    IF type \in {"CLARK", "SABR_BETA_ONE", "SABR_BETA_HALF", "BBG"} THEN 3
    ELSE IF type = "SABR" THEN 4
    ELSE 5

\* C17: from the allocation of the parameter array on, and on every
\* constructed surface, parameters has one row for each expiry and every row
\* has the parameter count of the family: 3 for CLARK, SABR_BETA_ONE,
\* SABR_BETA_HALF and BBG, 4 for SABR, 5 for CLARK5, SVI and SSVI.
C17_ParameterCounts ==
    (Calibrating \/ Constructed) =>
        /\ volatility_function_type \in FinVolFunctionTypes
        /\ Len(parameters) = numExpiryDates
        /\ \A i \in 1..numExpiryDates :
               Len(parameters[i]) = FamilyParameterCount(volatility_function_type)

\* C17, witness: a constructed SABR surface of two expiries with fitted rows
\* of four parameters.
C17_Witness ==
    /\ Constructed /\ numExpiryDates = 2
    /\ volatility_function_type = "SABR"
    /\ Len(parameters[1]) = 4 /\ Len(parameters[2]) = 4
    /\ parameters[2] # Zeros(4)

(***************************************************************************)
(* C18.  A discriminant outside the defined families.                      *)
(***************************************************************************)
UnknownModelTypeError == FinError("Unknown Model Type")

C19_ObjectiveAtStoredForward ==
    (Calibrating \/ Constructed) =>
        \A e \in CalibratedExpiries :
            \A k \in 1..Len(ctor.runs[e]) :
                LET obj == ctor.runs[e][k].obj
                IN  /\ obj.volTypeValue = volatility_function_type
                    /\ obj.t = texp[e]
                    /\ obj.f = F0T[e]

(***************************************************************************)
(* C20.  Queries are read-only.                                            *)
(***************************************************************************)
\* C20: every step of a constructed surface, a strike query or a delta
\* query, one that raises included, leaves every field of the surface as it
\* was (parameters, times, forwards, rates, grid, strikes, expiries,
\* family, curves, spot); and the outcome of a strike query is the one the
\* query gives for its own arguments on the surface as constructed, whatever
\* queries ran before (the outcome of a delta query depends, besides, on the
\* strikes its solves return).
C20_QueriesReadOnly ==
    [][/\ surface' = surface
       /\ call'.op = "volatilityFromStrikeDate" =>
              call' = volatilityFromStrikeDate(call'.K, call'.expiry_date)]_vars

\* C20, witness: a query has raised on a surface whose derived fields are
\* still the ones construction computes from the expiries and the curves.
C20_Witness ==
    /\ IsQuery /\ call.result.kind = "error"
    /\ ctor = Returned
    /\ texp = [i \in 1..numExpiryDates |->
                  TimeToExpiry(expiry_dates[i], valuation_date)]
    /\ F0T = [i \in 1..numExpiryDates |->
                 BuildForward(stock_price, discount_curve, dividend_curve, texp[i])]
    /\ r = [i \in 1..numExpiryDates |-> BuildRate(discount_curve, texp[i])]

SolvesRan == {sv \in {call.solve0, call.solve1} : sv # NoSolve}

\* C22: every strike solve of a delta query runs newton_secant with
\* tolerance 1e-8 and at most 50 iterations, and either returns the strike on
\* which the iteration met the tolerance or surfaces StrikeSolveFailed; no
\* strike of an iteration that did not converge is returned, and a delta
\* query one of whose solves did not converge raises StrikeSolveFailed
\* instead of returning a volatility.
C22_NoStaleStrike ==
    IsDeltaQuery =>
        /\ \A sv \in SolvesRan :
              /\ sv.solve.tol = 8
              /\ sv.solve.maxiter = 50
              /\ sv.raised = sv.solve.raised
              /\ ~sv.raised => sv.K = sv.solve.x
        /\ (\E sv \in SolvesRan : sv.solve.raised) <=>
               call.result = StrikeSolveFailed
        /\ call.result.kind = "pair" =>
               /\ \A sv \in SolvesRan : ~sv.solve.raised
               /\ call.K0 = call.solve0.solve.x

\* C22, witness: a delta query between two tenors whose first solve returned
\* a strike and whose second did not converge, which raised StrikeSolveFailed.
C22_Witness ==
    /\ IsDeltaQuery /\ call.index0 # call.index1
    /\ ~call.solve0.raised /\ call.solve0.K \in QueryStrikes
    /\ call.solve1.raised
    /\ call.result = StrikeSolveFailed

(***************************************************************************)
(* C24.  The optimiser runs of one expiry.                                 *)
(***************************************************************************)
\* what a caller may take for the report of a calibration that failed: the
\* error of the taxonomy or the exception the optimiser itself raised
CalibrationFailures ==
    {FinError("CalibrationNotConverged"), Exception("raised by minimize"),
     Exception("IndexError")}

\* C24, as claimed: with expiries after the valuation date, every expiry the
\* loop has been through has one or two optimiser runs; a second run is there
\* only after a primary run that raised and was not conjugate gradient, and
\* it is conjugate gradient; when a conjugate-gradient primary run raised
\* there is no second run and construction has aborted with a report of the
\* calibration failure.
C24_AtMostOneRetryAndFailureReported ==
    ExpiriesAfterValuation =>
        \A e \in CalibratedExpiries :
            LET runs == ctor.runs[e]
            IN  /\ Len(runs) \in {1, 2}
                /\ Len(runs) = 2 =>
                       /\ runs[1].raised
                       /\ runs[1].method # "CG"
                       /\ runs[2].method = "CG"
                /\ (runs[1].method = "CG" /\ runs[1].raised) =>
                       /\ Len(runs) = 1
                       /\ Aborted
                       /\ ctor.raised \in CalibrationFailures

(***************************************************************************)
(* C25.  The scan for the bracket.                                         *)
(***************************************************************************)
\* the query went past the three tests before the scan: two or more tenors,
\* a time after the first and before (strike query) or not after (delta
\* query) the last
ReachedScan ==
    /\ IsQuery /\ numExpiryDates >= 2
    /\ texp[1] < call.texp
    /\ IsStrikeQuery => call.texp < texp[numExpiryDates]
    /\ IsDeltaQuery => call.texp <= texp[numExpiryDates]

\* C25: whatever the order of the expiry times, a query that reached the scan
\* selected an adjacent pair (k-1, k) with t_{k-1} < tau <= t_k, not the
\* default bracket; and the bracket of every query has
\* first <= index0 <= index1 <= last and index1 - index0 <= 1.
C25_ScanFindsAdjacentPair ==
    IsQuery =>
        /\ 1 <= call.index0 /\ call.index0 <= call.index1
        /\ call.index1 <= numExpiryDates
        /\ call.index1 - call.index0 <= 1
        /\ ReachedScan =>
               /\ call.index1 = call.index0 + 1
               /\ texp[call.index0] < call.texp
               /\ call.texp <= texp[call.index1]
               /\ call.t0 = texp[call.index0] /\ call.t1 = texp[call.index1]

\* C25, witness: a delta query on three tenors that are not in ascending
\* order, at the time of the last one, whose scan selected a pair.
C25_Witness ==
    /\ IsDeltaQuery /\ ReachedScan /\ numExpiryDates = 3
    /\ texp[2] > texp[3]
    /\ call.texp = texp[3]
    /\ call.index1 = call.index0 + 1

(***************************************************************************)
(* C26.  The divisors of the interpolation branch.                         *)
(***************************************************************************)
\* the query went into the branch of abs(t1 - t0) > 1e-6
TookInterpolationBranch == IsQuery /\ ~SolveRaised /\ call.interpolated

\* the query divided by its time: it returned np.sqrt(vart/texp)
DividedByTime ==
    \/ IsStrikeQuery /\ call.result.kind = "sqrt"
    \/ /\ IsDeltaQuery /\ call.result.kind = "pair"
       /\ call.result.volt.kind = "sqrt"

\* C26: a query that takes the interpolation branch divides by
\* t1 - t0 > 0, also when the expiry list holds a time twice; and on a surface
\* of non-negative times the time it divides the interpolated variance by is
\* positive, and a query at a time at or below zero does not take the branch
\* and does not divide by its time.
C26_DivisorsPositive ==
    /\ TookInterpolationBranch =>
           /\ call.t1 - call.t0 > 0
           /\ call.vart.den = call.t1 - call.t0
           /\ IsDeltaQuery /\ call.result.kind = "pair" =>
                  call.result.kt.den = call.t1 - call.t0
           /\ NonNegativeTimes => call.texp > 0
    /\ DividedByTime =>
           /\ TookInterpolationBranch
           /\ NonNegativeTimes =>
                  /\ IsStrikeQuery => call.result.den = call.vart.den * call.texp
                  /\ IsDeltaQuery =>
                         call.result.volt.den = call.vart.den * call.texp
                  /\ call.vart.den * call.texp > 0
    /\ (IsQuery /\ NonNegativeTimes /\ call.texp <= 0) =>
           /\ ~TookInterpolationBranch
           /\ ~DividedByTime

\* C26, witness: a strike query on a surface of non-negative times that hold
\* one time twice, which interpolated and divided by its time.
C26_Witness ==
    /\ IsStrikeQuery /\ NonNegativeTimes /\ numExpiryDates = 3
    /\ \E i \in 1..2 : texp[i] = texp[i+1]
    /\ TookInterpolationBranch /\ DividedByTime
    /\ call.texp > 0

(***************************************************************************)
(* C27.  Two distinct tenors within the tolerance.                         *)
(***************************************************************************)
\* the bracket of the query is two distinct tenors whose times differ by at
\* most the tolerance
DegenerateBracket(c) ==
    /\ c.index0 # c.index1
    /\ Abs(c.t1 - c.t0) <= TimeTol

\* the endpoints of its bracket whose smile value, at the strike of the
\* query, a strike query returned
StrikeQueryEndpoints(c) ==
    {i \in {c.index0, c.index1} : c.result = Direct(Smile(i, c.K))}

\* the endpoints of its bracket whose smile value, at the strike it returned,
\* a delta query returned
DeltaQueryEndpoints(c) ==
    {i \in {c.index0, c.index1} :
        /\ c.result.kt.den = 1
        /\ c.result.volt = Direct(Smile(i, c.result.kt.num))}

\* C27, as claimed: on a surface of positive times, when a strike query
\* selected two distinct tenors within the tolerance it did not interpolate,
\* and a delta query of the same expiry date selects the same bracket, does
\* not interpolate either and returns the smile value of an endpoint the
\* strike query returned the smile value of.
C27_SameEndpointInBothQueries ==
    (IsStrikeQuery /\ PositiveTimes /\ DegenerateBracket(call)) =>
        /\ ~call.interpolated
        /\ StrikeQueryEndpoints(call) # {}
        /\ \A callDelta \in QueryDeltas :
              \A o \in volatilityFromDeltaDate(callDelta, call.expiry_date, "None") :
                  (~o.solve0.raised /\ ~o.solve1.raised) =>
                      /\ o.index0 = call.index0 /\ o.index1 = call.index1
                      /\ ~o.interpolated
                      /\ o.result.kind = "pair"
                      /\ DeltaQueryEndpoints(o) \cap StrikeQueryEndpoints(call) # {}

(***************************************************************************)
(* EquityVarianceSwap.fairStrike (products/equity/equity_variance_swap.py).*)
(* Strikes, prices and the strike spacing are integers; a weight is        *)
(* carried by the two strikes it is computed from.  Index n of the model   *)
(* is index n-1 of the code.                                               *)
(***************************************************************************)
\* the largest numPutOptions, numCallOptions, stock_price and strikeSpacing
\* fairStrike is called with
MaxPutOptions == 3

MaxCallOptions == 1

MaxSwapPrice == 6

MaxStrikeSpacing == 3

\* the maturity date of the swap and the valuation dates of fairStrike, all
\* before the maturity date (tmat > 0)
SwapMaturityDate == 2

SwapValuationDates == {0, 1}

\* g = exp(r*tmat) of the discount curve: the forward is stock_price * g
SwapGrowth(curve) ==
    CASE curve = "zero"  -> 1
      [] curve = "steep" -> 2

\* an entry of np.zeros(n) that no loop has written, and a weight computed
\* from the strikes k and kp
NoWeight == [written |-> FALSE]

Weight(k, kp) == [written |-> TRUE, k |-> k, kp |-> kp]

ZeroWeights(n) == [j \in 1..n |-> NoWeight]

\* np.linspace(start, stop, num), num >= 2
Linspace(start, stop, num) ==
    [i \in 1..num |-> start + ((i - 1) * (stop - start)) \div (num - 1)]

\* what the loop `while k >= strikeSpacing` appends to klist
RECURSIVE Descend(_, _)
Descend(k, strikeSpacing) ==
    IF k >= strikeSpacing
    THEN <<k - strikeSpacing>> \o Descend(k - strikeSpacing, strikeSpacing)
    ELSE <<>>

\* putK and what self._numPutOptions becomes
PutLadder(sstar, numPutOptions, strikeSpacing) ==
    LET minStrike == sstar - (numPutOptions + 1) * strikeSpacing
        klist == <<sstar>> \o Descend(sstar, strikeSpacing)
    IN  IF minStrike < strikeSpacing
        THEN [truncated |-> TRUE, minStrike |-> minStrike, putK |-> klist,
              numPutOptions |-> Len(klist) - 1]
        ELSE [truncated |-> FALSE, minStrike |-> minStrike,
              putK |-> Linspace(sstar, minStrike, numPutOptions + 2),
              numPutOptions |-> numPutOptions]

\* f(x) = (2.0/tmat)*((x-sstar)/sstar - log(x/sstar)) raises when math.log does
LogContractRaises(x, sstar) == x <= 0

\* a loop `for n in range(0, count)` over the strikes K that writes wts[n]
\* from K[n] and K[n+1]: the array as the loop leaves it, the indices it
\* has written and what it raised
RECURSIVE WeightsLoop(_, _, _, _, _)
WeightsLoop(K, wts, sstar, n, count) ==
    IF n > count THEN [wts |-> wts, raised |-> NoError]
    ELSE IF n + 1 > Len(K)
    THEN [wts |-> wts, raised |-> Exception("IndexError")]
    ELSE IF LogContractRaises(K[n+1], sstar) \/ LogContractRaises(K[n], sstar)
    THEN [wts |-> wts, raised |-> Exception("ValueError")]
    ELSE IF n > Len(wts)
    THEN [wts |-> wts, raised |-> Exception("IndexError")]
    ELSE WeightsLoop(K, [wts EXCEPT ![n] = Weight(K[n], K[n+1])], sstar,
                     n + 1, count)

\* a loop `for n in range(0, count)` that prices the option of strike K[n]
\* and multiplies by wts[n]: the options priced and what it raised
PricingLoop(K, wts, count) ==
    LET bad == {n \in 1..count : n > Len(K) \/ n > Len(wts)}
        stop == IF bad = {} THEN count
                ELSE (CHOOSE n \in bad : \A m \in bad : n <= m) - 1
    IN  [priced |-> [n \in 1..stop |-> [k |-> K[n], wt |-> wts[n]]],
         raised |-> IF bad = {} THEN NoError ELSE Exception("IndexError")]

\* the object and the record of the call after
\* fairStrike(valuation_date, stock_price, dividend_curve, volatilityCurve,
\*            numCallOptions, numPutOptions, strikeSpacing, discount_curve,
\*            useForward)
FairStrikeRun(self, valuationDate, stockPrice, numCallOptions, numPutOptions, strikeSpacing, discountCurve, useForward) ==
    LET tmat == self._maturity_date - valuationDate
        g == SwapGrowth(discountCurve)
        fwd == stockPrice * g
        sstar == IF useForward THEN fwd ELSE stockPrice
        ladder == PutLadder(sstar, numPutOptions, strikeSpacing)
        putK == ladder.putK
        maxStrike == sstar + (numCallOptions + 1) * strikeSpacing
        callK == Linspace(sstar, maxStrike, numCallOptions + 2)
        puts == WeightsLoop(putK, ZeroWeights(numPutOptions), sstar, 1,
                            ladder.numPutOptions)
        calls == IF puts.raised # NoError
                 THEN [wts |-> ZeroWeights(numCallOptions), raised |-> NoError]
                 ELSE WeightsLoop(callK, ZeroWeights(numCallOptions), sstar, 1,
                                  numCallOptions)
        weighted == puts.raised = NoError /\ calls.raised = NoError
        piPut == IF weighted THEN PricingLoop(putK, puts.wts, numPutOptions)
                 ELSE [priced |-> <<>>, raised |-> NoError]
        piCall == IF weighted /\ piPut.raised = NoError
                  THEN PricingLoop(callK, calls.wts, numCallOptions)
                  ELSE [priced |-> <<>>, raised |-> NoError]
        raised == IF puts.raised # NoError THEN puts.raised
                  ELSE IF calls.raised # NoError THEN calls.raised
                  ELSE IF piPut.raised # NoError THEN piPut.raised
                  ELSE piCall.raised
        arguments == [valuation_date |-> valuationDate,
                      stock_price |-> stockPrice,
                      numCallOptions |-> numCallOptions,
                      numPutOptions |-> numPutOptions,
                      strikeSpacing |-> strikeSpacing,
                      discount_curve |-> discountCurve,
                      useForward |-> useForward]
    IN  [self |-> [self EXCEPT !._numPutOptions = ladder.numPutOptions,
                               !._numCallOptions = numCallOptions,
                               !._put_strikes = putK,
                               !._call_strikes = callK,
                               !._putWts = puts.wts,
                               !._callWts = calls.wts],
         call |-> [op |-> "fairStrike", args |-> arguments,
                   tmat |-> tmat,
                   sstar |-> sstar, minStrike |-> ladder.minStrike,
                   truncated |-> ladder.truncated,
                   putK |-> putK, callK |-> callK,
                   putsPriced |-> piPut.priced,
                   callsPriced |-> piCall.priced,
                   result |-> IF raised # NoError THEN raised
                              ELSE [kind |-> "var"]]]

fairStrike ==
    /\ swap.class = "EquityVarianceSwap"
    /\ \E valuationDate \in SwapValuationDates,
          stockPrice \in 1..MaxSwapPrice,
          numCallOptions \in 0..MaxCallOptions,
          numPutOptions \in 0..MaxPutOptions,
          strikeSpacing \in 1..MaxStrikeSpacing,
          discountCurve \in {"zero", "steep"},
          useForward \in BOOLEAN :
          LET out == FairStrikeRun(swap, valuationDate, stockPrice,
                                   numCallOptions, numPutOptions, strikeSpacing,
                                   discountCurve, useForward)
          IN  /\ swap' = out.self
              /\ call' = out.call
    /\ UNCHANGED surface
    /\ UNCHANGED ctor
    /\ UNCHANGED touch

\* the swap after EquityVarianceSwap.__init__; there is no surface
SwapInit ==
    /\ valuation_date = Unset
    /\ stock_price = Unset
    /\ discount_curve = Unset
    /\ dividend_curve = Unset
    /\ strikes = Unset
    /\ numStrikes = Unset
    /\ expiry_dates = Unset
    /\ volatility_grid = Unset
    /\ volatility_function_type = Unset
    /\ numExpiryDates = Unset
    /\ parameters = Unset
    /\ texp = Unset
    /\ F0T = Unset
    /\ r = Unset
    /\ q = Unset
    /\ call = NoCall
    /\ ctor = Returned
    /\ swap = [class |-> "EquityVarianceSwap",
               _start_date |-> 0,
               _maturity_date |-> SwapMaturityDate,
               _strikeVariance |-> 1,
               _notional |-> 1,
               _payStrikeFlag |-> TRUE,
               _numPutOptions |-> 0,
               _numCallOptions |-> 0,
               _putWts |-> <<>>,
               _put_strikes |-> <<>>,
               _callWts |-> <<>>,
               _call_strikes |-> <<>>]
    /\ touch = NoProduct

SwapSpec == SwapInit /\ [][fairStrike]_vars

(***************************************************************************)
(* FXOneTouchOption (products/fx/fx_one_touch_options.py): the attributes  *)
(* its constructor assigns and the ones value, value_mc and __repr__ read. *)
(***************************************************************************)
\* TouchOptionPayoffTypes
TouchOptionPayoffTypes ==
    {"DOWN_AND_IN_CASH_AT_HIT", "UP_AND_IN_CASH_AT_HIT",
     "DOWN_AND_IN_CASH_AT_EXPIRY", "UP_AND_IN_CASH_AT_EXPIRY",
     "DOWN_AND_OUT_CASH_OR_NOTHING", "UP_AND_OUT_CASH_OR_NOTHING",
     "DOWN_AND_IN_ASSET_AT_HIT", "UP_AND_IN_ASSET_AT_HIT",
     "DOWN_AND_IN_ASSET_AT_EXPIRY", "UP_AND_IN_ASSET_AT_EXPIRY",
     "DOWN_AND_OUT_ASSET_OR_NOTHING", "UP_AND_OUT_ASSET_OR_NOTHING"}

\* the payoff types whose barrier lies below the rate, and the ones that pay
\* in cash
DownTypes ==
    {"DOWN_AND_IN_CASH_AT_HIT", "DOWN_AND_IN_CASH_AT_EXPIRY",
     "DOWN_AND_OUT_CASH_OR_NOTHING", "DOWN_AND_IN_ASSET_AT_HIT",
     "DOWN_AND_IN_ASSET_AT_EXPIRY", "DOWN_AND_OUT_ASSET_OR_NOTHING"}

CashTypes ==
    {"DOWN_AND_IN_CASH_AT_HIT", "UP_AND_IN_CASH_AT_HIT",
     "DOWN_AND_IN_CASH_AT_EXPIRY", "UP_AND_IN_CASH_AT_EXPIRY",
     "DOWN_AND_OUT_CASH_OR_NOTHING", "UP_AND_OUT_CASH_OR_NOTHING"}

\* the expiry date, the barrier levels and payment sizes an option is
\* constructed with, and the valuation dates and rates it is valued at
TouchExpiryDate == 2

TouchBarriers == {3, 5}

TouchPayments == {1, 2}

TouchValuationDates == {1, 3}

TouchRates == {2, 4, 6}

\* products/equity/equity_option.py, EquityOption: the attributes an object
\* has from the base class, which assigns none
EquityOptionAttributes == {}

\* the object has the attribute
HasAttr(self, name) == name \in DOMAIN self \/ name \in EquityOptionAttributes

\* the object after FXOneTouchOption.__init__(expiry_date, option_type,
\* barrierFXRate, paymentSize)
FXOneTouchOption(expiry_date, option_type, barrierFXRate, paymentSize) ==
    [class |-> "FXOneTouchOption",
     _expiry_date |-> expiry_date,
     _option_type |-> option_type,
     _barrierFXRate |-> barrierFXRate,
     _paymentSize |-> paymentSize]

\* what reading self.<name> raises when the object has no such attribute
AttributeError(name) ==
    [kind |-> "error", error |-> "AttributeError", name |-> name]

\* the attributes a method reads, in the order of their first read, up to
\* and with the first one the object does not have
RECURSIVE ReadsOf(_, _)
ReadsOf(self, names) ==
    IF names = <<>> THEN <<>>
    ELSE IF ~HasAttr(self, Head(names)) THEN <<Head(names)>>
    ELSE <<Head(names)>> \o ReadsOf(self, Tail(names))

\* the attribute the reads stopped at, if any
Missing(self, reads) ==
    {reads[i] : i \in {j \in DOMAIN reads : ~HasAttr(self, reads[j])}}

\* the barrier test and the price of value: Haug's formulas, uninterpreted
ValuePayoff(option_type, s0, H, K) ==
    IF option_type \notin TouchOptionPayoffTypes
    THEN FinError("Unknown option type.")
    ELSE IF option_type \in DownTypes /\ s0 <= H
    THEN FinError("FX Rate is currently below barrier.")
    ELSE IF option_type \notin DownTypes /\ s0 >= H
    THEN FinError("FX Rate is currently above barrier.")
    ELSE [kind |-> "price", method |-> "value", option_type |-> option_type,
          s0 |-> s0, H |-> H,
          K |-> IF option_type \in {"DOWN_AND_IN_ASSET_AT_HIT",
                                    "UP_AND_IN_ASSET_AT_HIT"}
                THEN H ELSE K]

\* the barrier test and the price of value_mc: the path averages,
\* uninterpreted
ValueMCPayoff(option_type, s0, H, X) ==
    IF option_type \notin TouchOptionPayoffTypes
    THEN FinError("Unknown option type.")
    ELSE IF (option_type \in DownTypes /\ s0 <= H)
            \/ (option_type \notin DownTypes /\ s0 >= H)
    THEN IF option_type = "DOWN_AND_IN_CASH_AT_EXPIRY"
         THEN FinError("Barrier has  ALREADY been crossed.")
         ELSE IF option_type \in CashTypes
         THEN FinError("Barrier has ALREADY been crossed.")
         ELSE FinError("Stock price is currently below barrier.")
    ELSE [kind |-> "price", method |-> "value_mc", option_type |-> option_type,
          s0 |-> s0, H |-> H, K |-> X]

\* value(valuation_date, spot_fx_rate, domCurve, forCurve, model)
value ==
    /\ touch.class = "FXOneTouchOption"
    /\ \E valuationDate \in TouchValuationDates, spot_fx_rate \in TouchRates :
          LET names == <<"_expiry_date", "_barrierRate", "_paymentSize",
                         "_option_type">>
              late == valuationDate > touch._expiry_date
              reads == IF late THEN <<"_expiry_date">> ELSE ReadsOf(touch, names)
              missing == Missing(touch, reads)
          IN  call' = [op |-> "value",
                       args |-> [valuation_date |-> valuationDate,
                                 spot_fx_rate |-> spot_fx_rate],
                       reads |-> reads,
                       result |->
                           IF late THEN FinError("Value date after expiry date.")
                           ELSE IF missing # {}
                           THEN AttributeError(CHOOSE name \in missing : TRUE)
                           ELSE ValuePayoff(touch._option_type, spot_fx_rate,
                                            touch._barrierRate,
                                            touch._paymentSize)]
    /\ UNCHANGED surface
    /\ UNCHANGED ctor
    /\ UNCHANGED products

\* value_mc(valuation_date, stock_price, domCurve, forCurve, model, ...), at
\* a valuation date before the expiry date
value_mc ==
    /\ touch.class = "FXOneTouchOption"
    /\ \E valuationDate \in {d \in TouchValuationDates : d < touch._expiry_date},
          stockPrice \in TouchRates :
          LET names == <<"_expiry_date", "_barrierPrice", "_paymentSize",
                         "_option_type">>
              reads == ReadsOf(touch, names)
              missing == Missing(touch, reads)
          IN  call' = [op |-> "value_mc",
                       args |-> [valuation_date |-> valuationDate,
                                 stock_price |-> stockPrice],
                       reads |-> reads,
                       result |->
                           IF missing # {}
                           THEN AttributeError(CHOOSE name \in missing : TRUE)
                           ELSE ValueMCPayoff(touch._option_type, stockPrice,
                                              touch._barrierPrice,
                                              touch._paymentSize)]
    /\ UNCHANGED surface
    /\ UNCHANGED ctor
    /\ UNCHANGED products

\* __repr__()
__repr__ ==
    /\ touch.class = "FXOneTouchOption"
    /\ LET names == <<"_expiry_date", "_option_type", "_barrierPrice",
                      "_paymentSize">>
           reads == ReadsOf(touch, names)
           missing == Missing(touch, reads)
       IN  call' = [op |-> "__repr__",
                    args |-> <<>>,
                    reads |-> reads,
                    result |->
                        IF missing # {}
                        THEN AttributeError(CHOOSE name \in missing : TRUE)
                        ELSE [kind |-> "string",
                              labels |-> [i \in DOMAIN names |-> touch[names[i]]]]]
    /\ UNCHANGED surface
    /\ UNCHANGED ctor
    /\ UNCHANGED products

\* an option after FXOneTouchOption.__init__; there is no surface
TouchInit ==
    /\ valuation_date = Unset
    /\ stock_price = Unset
    /\ discount_curve = Unset
    /\ dividend_curve = Unset
    /\ strikes = Unset
    /\ numStrikes = Unset
    /\ expiry_dates = Unset
    /\ volatility_grid = Unset
    /\ volatility_function_type = Unset
    /\ numExpiryDates = Unset
    /\ parameters = Unset
    /\ texp = Unset
    /\ F0T = Unset
    /\ r = Unset
    /\ q = Unset
    /\ call = NoCall
    /\ ctor = Returned
    /\ swap = NoProduct
    /\ \E option_type \in TouchOptionPayoffTypes,
          barrierFXRate \in TouchBarriers,
          paymentSize \in TouchPayments :
          touch = FXOneTouchOption(TouchExpiryDate, option_type, barrierFXRate,
                                   paymentSize)

TouchNext ==
    \/ value
    \/ value_mc
    \/ __repr__

TouchSpec == TouchInit /\ [][TouchNext]_vars

(***************************************************************************)
(* C28.  The indices of the put strikes and put weights.                   *)
(***************************************************************************)
\* fairStrike has been called
Replicated == call.op = "fairStrike"

\* the put weights the loop has computed
PutWeightsComputed == {n \in DOMAIN swap._putWts : swap._putWts[n].written}

\* C28, as claimed: a call of fairStrike (numPutOptions >= 0,
\* numCallOptions >= 0, strikeSpacing > 0, positive centre strike) raises no
\* IndexError, and when it returns the number of put weights computed, the
\* length of the put-weight array, the number of puts the object records and
\* the number of puts priced are the same, truncated ladder or not.
C28_PutIndicesInBounds ==
    Replicated =>
        /\ call.result # Exception("IndexError")
        /\ call.result.kind = "var" =>
               /\ Cardinality(PutWeightsComputed) = Len(swap._putWts)
               /\ Len(swap._putWts) = swap._numPutOptions
               /\ Len(call.putsPriced) = swap._numPutOptions

(***************************************************************************)
(* C29.  The truncated put ladder.                                         *)
(***************************************************************************)
\* C29, as claimed: when the lowest planned put strike falls below the
\* strike spacing, the put strikes descend from the centre strike in steps
\* of strikeSpacing and every one of them is at least strikeSpacing.
C29_PutStrikesAtLeastSpacing ==
    (Replicated /\ call.truncated) =>
        /\ swap._put_strikes[1] = call.sstar
        /\ \A i \in 1..(Len(swap._put_strikes) - 1) :
              swap._put_strikes[i+1] = swap._put_strikes[i] - call.args.strikeSpacing
        /\ \A i \in DOMAIN swap._put_strikes :
              swap._put_strikes[i] >= call.args.strikeSpacing

(***************************************************************************)
(* C30.  The attributes of an FXOneTouchOption.                            *)
(***************************************************************************)
\* a method of the option has been called
TouchCalled == call.op \in {"value", "value_mc", "__repr__"}

\* C30, as claimed: every attribute value, value_mc and __repr__ read from an
\* option is one the object has from its constructor, no call ends on a
\* missing attribute, and a call that prices the option tests and prices it
\* at the barrier level the constructor was given.
C30_MethodsReadConstructedAttributes ==
    TouchCalled =>
        /\ \A i \in DOMAIN call.reads : call.reads[i] \in DOMAIN touch
        /\ call.result.kind = "error" => call.result.error # "AttributeError"
        /\ call.result.kind = "price" => call.result.H = touch._barrierFXRate

====
